---- MODULE Spec2Model ----
(***************************************************************************)
(* Model of the LC480 curve viewer: the text parser (lc480_parser.py), the *)
(* XML parser (lcpro_parser.py), the baseline engine (baseline.py) and the *)
(* main window's import / baseline-settings handlers (main_window.py).     *)
(*                                                                         *)
(* Text is modelled as sequences of atoms.  An atom is a one-character     *)
(* string, or one of a few literal words the source matches as a whole     *)
(* ("SamplePos", "Experiment", "(Run on LCS480").  A token is a            *)
(* sequence of atoms, a line of a text file is the sequence of its         *)
(* tab-separated fields.  Floating-point numbers are modelled as exact     *)
(* rationals [n, d] in lowest terms with d > 0.                            *)
(***************************************************************************)
EXTENDS Integers, Sequences, FiniteSets, TLC

VARIABLES
    data,        \* MainWindow._data: None or a dataset
    baseline_settings,   \* MainWindow._baseline_settings
    baseline_results,    \* MainWindow._baseline_results: None or a result set
    dlg,         \* the modal BaselineSettingsDialog: closed, or its spin boxes
    last_op,     \* the handler that ran last and how it ended
    called,      \* whether that handler called compute_baseline(data, settings)
    input,       \* parser specification: the file handed to a parser
    parsed,      \* parser specification: what the parser returned or raised
    eng_in,      \* engine specification: the (dataset, settings) pair
    eng_out,     \* engine specification: what compute_baseline returned or raised
    plate_map,   \* selection specification: PlateMapWidget's well sets
    sample_table,    \* selection specification: SampleTableWidget's rows and selected rows
    curve_viewer,    \* selection specification: CurveViewerWidget's dataset and selected wells
    syncing,     \* selection specification: MainWindow._syncing
    signals      \* selection specification: the signals and slots of the last operation

widgets == <<plate_map, sample_table, curve_viewer, syncing, signals>>

vars == <<data, baseline_settings, baseline_results, dlg, last_op, called, input, parsed, eng_in, eng_out,
          widgets>>

(***************************************************************************)
(* Generic helpers                                                         *)
(***************************************************************************)
Range(s) == {s[i] : i \in DOMAIN s}

RECURSIVE SeqsUpTo(_, _)
\* all sequences over S of length at most n
SeqsUpTo(S, n) ==
    IF n = 0 THEN {<<>>}
    ELSE LET shorter == SeqsUpTo(S, n - 1)
         IN  shorter \cup {Append(s, x) : s \in {t \in shorter : Len(t) = n - 1}, x \in S}

Raise(e) == [tag |-> "raise", exc |-> e]
Ok(v) == [tag |-> "ok", val |-> v]
NoneValue == [tag |-> "None"]

(***************************************************************************)
(* Python str methods on tokens                                            *)
(***************************************************************************)
Space == " "
Digits == <<"0", "1", "2", "3", "4", "5", "6", "7", "8", "9">>
IsDigit(c) == \E i \in DOMAIN Digits : Digits[i] = c
DigitValue(c) == (CHOOSE i \in DOMAIN Digits : Digits[i] = c) - 1

Letters == <<"A", "B", "C", "D", "E", "F", "G", "H">>
LowerLetters == <<"a", "b", "c", "d", "e", "f", "g", "h">>

RECURSIVE LStrip(_)
LStrip(tok) ==
    IF tok = <<>> THEN <<>>
    ELSE IF Head(tok) = Space THEN LStrip(Tail(tok)) ELSE tok

RECURSIVE RStrip(_)
RStrip(tok) ==
    IF tok = <<>> THEN <<>>
    ELSE IF tok[Len(tok)] = Space THEN RStrip(SubSeq(tok, 1, Len(tok) - 1)) ELSE tok

\* str.strip() of one token
Strip(tok) == RStrip(LStrip(tok))

RECURSIVE LStripFields(_)
LStripFields(fs) ==
    IF Len(fs) = 1 THEN <<LStrip(fs[1])>>
    ELSE IF LStrip(fs[1]) = <<>> THEN LStripFields(Tail(fs))
    ELSE <<LStrip(fs[1])>> \o Tail(fs)

RECURSIVE RStripFields(_)
RStripFields(fs) ==
    IF Len(fs) = 1 THEN <<RStrip(fs[1])>>
    ELSE IF RStrip(fs[Len(fs)]) = <<>> THEN RStripFields(SubSeq(fs, 1, Len(fs) - 1))
    ELSE SubSeq(fs, 1, Len(fs) - 1) \o <<RStrip(fs[Len(fs)])>>

\* line.strip().split('\t'): tabs are whitespace, so blank outer fields go
\* with their tabs; the empty line splits into one empty field
StripSplit(line) == RStripFields(LStripFields(line))

IsBlankLine(line) == StripSplit(line) = << <<>> >>

\* line.strip().startswith('SamplePos')
StartsWithSamplePos(line) ==
    LET first == StripSplit(line)[1]
    IN  first # <<>> /\ first[1] = "SamplePos"

RECURSIVE DecValue(_)
DecValue(ds) ==
    IF ds = <<>> THEN 0
    ELSE 10 * DecValue(SubSeq(ds, 1, Len(ds) - 1)) + DigitValue(ds[Len(ds)])

AllDigits(ds) == ds # <<>> /\ \A i \in DOMAIN ds : IsDigit(ds[i])

\* int(text) and float(text) on the modelled alphabet: optional surrounding
\* blanks, optional minus sign, decimal digits; anything else is a ValueError
ParseNumber(tok) ==
    LET s == Strip(tok)
    IN  IF AllDigits(s) THEN Ok(DecValue(s))
        ELSE IF s # <<>> /\ s[1] = "-" /\ AllDigits(Tail(s)) THEN Ok(0 - DecValue(Tail(s)))
        ELSE Raise("ValueError")

(***************************************************************************)
(* lc480_parser.py                                                         *)
(***************************************************************************)
LC480Data(name, version, channels, wells, sample_names, num_cycles, fluorescence, cycles) ==
    [tag |-> "LC480Data",
     experiment_name |-> name, software_version |-> version,
     channels |-> channels, wells |-> wells, sample_names |-> sample_names,
     num_cycles |-> num_cycles, fluorescence |-> fluorescence, cycles |-> cycles]

\* ord(c.upper()) - ord('A') for the modelled atoms
RowOf(c) ==
    IF \E i \in DOMAIN Letters : Letters[i] = c
        THEN (CHOOSE i \in DOMAIN Letters : Letters[i] = c) - 1
    ELSE IF \E i \in DOMAIN LowerLetters : LowerLetters[i] = c
        THEN (CHOOSE i \in DOMAIN LowerLetters : LowerLetters[i] = c) - 1
    ELSE IF IsDigit(c) THEN DigitValue(c) - 17
    ELSE IF c = "SamplePos" THEN 18
    ELSE IF c = "x" THEN 23
    ELSE IF c = "-" THEN 0 - 20
    ELSE 0 - 33

\* the rest of a well id after its first character
RestOf(well) ==
    IF well[1] = "SamplePos" THEN <<"a", "m", "p", "l", "e", "P", "o", "s">> \o Tail(well)
    ELSE Tail(well)

well_sort_key_swapped(well) ==
    IF well = <<>> THEN Raise("IndexError")
    ELSE LET col == ParseNumber(RestOf(well))
         IN  IF col.tag = "raise" THEN col
             ELSE Ok(<<RowOf(well[1]), col.val>>)

well_sort_key(well) ==
    IF well = <<>> THEN Raise("IndexError")
    ELSE LET col == ParseNumber(RestOf(well))
         IN  IF col.tag = "raise" THEN col
             ELSE Ok(<<col.val, RowOf(well[1])>>)

\* tuple comparison a < b
KeyLess(a, b) == a[1] < b[1] \/ (a[1] = b[1] /\ a[2] < b[2])

\* a sequence given as a function, as the tuple of its values
Tuple(f) == f \o <<>>

\* ws rearranged so that ws[i] stands at position rank[i]
Permute(ws, rank) == Tuple([p \in DOMAIN ws |-> ws[CHOOSE i \in DOMAIN ws : rank[i] = p]])

\* the stable sort of ws by the keys: the element at position i moves behind
\* the elements of smaller key and the earlier elements of equal key
StableSort(ws, keys) ==
    Permute(ws, Tuple([i \in DOMAIN ws |->
                    Cardinality({j \in DOMAIN ws :
                        KeyLess(keys[j], keys[i]) \/ (keys[j] = keys[i] /\ j < i)}) + 1]))

\* sorted(keys, key=well_sort_key): a key that raises aborts the sort
SortWells(ws) ==
    IF \E i \in DOMAIN ws : well_sort_key(ws[i]).tag = "raise"
        THEN Raise((CHOOSE e \in {well_sort_key(ws[i]) : i \in DOMAIN ws} : e.tag = "raise").exc)
    ELSE Ok(StableSort(Tuple(ws), Tuple([i \in DOMAIN ws |-> well_sort_key(ws[i]).val])))

\* one text with the tabs put back between the fields
RECURSIVE JoinTabs(_)
JoinTabs(fs) ==
    IF Len(fs) = 1 THEN fs[1] ELSE fs[1] \o <<"\t">> \o JoinTabs(Tail(fs))

IsWs(c) == c = Space \/ c = "\t"
AllWs(t, from, to) == \A i \in from..to : IsWs(t[i])

\* the matches of r'Experiment\s*-\s*(.+?)\s*\(Run on LCS480\s+(.+?)\)' in t, as
\* <<p, b, c, q, d, r>>: "Experiment" at p, group 1 = t[b..c], "(Run on LCS480"
\* at q, group 2 = t[d..r-1], ")" at r
MetaMatches(t) ==
    LET n == Len(t)
        At1(word) == {i \in 1..n : t[i] = word}
    IN  {m \in At1("Experiment") \X (1..n) \X (1..n) \X At1("(Run on LCS480")
                \X (1..n) \X At1(")") :
            /\ m[1] < m[2] /\ m[2] <= m[3] /\ m[3] < m[4] /\ m[4] + 1 < m[5] /\ m[5] < m[6]
            /\ \E a \in (m[1] + 1)..(m[2] - 1) :
                  /\ t[a] = "-"
                  /\ AllWs(t, m[1] + 1, a - 1)
                  /\ AllWs(t, a + 1, m[2] - 1)
            /\ AllWs(t, m[3] + 1, m[4] - 1)
            /\ t[m[4]] = "(Run on LCS480"
            /\ AllWs(t, m[4] + 1, m[5] - 1)
            /\ t[m[6]] = ")"}

\* the match re.search reports: leftmost start, then greedy \s*, lazy (.+?),
\* greedy \s+, lazy (.+?), in that order of preference
MetaPreferred(t) ==
    LET M == MetaMatches(t)
        Better(x, y) ==
            \E k \in 1..6 :
                /\ \A j \in 1..(k - 1) : x[j] = y[j]
                /\ IF k \in {2, 5} THEN x[k] > y[k] ELSE x[k] < y[k]
    IN  CHOOSE x \in M : \A y \in M \ {x} : Better(x, y)

\* match.group(1).strip(), match.group(2).strip(), or no match
MetaOf(line) ==
    LET t == JoinTabs(StripSplit(line))
    IN  IF MetaMatches(t) = {} THEN NoneValue
        ELSE LET m == MetaPreferred(t)
             IN  [tag |-> "match",
                  name |-> Strip(SubSeq(t, m[2], m[3])),
                  version |-> Strip(SubSeq(t, m[5], m[6] - 1))]

\* header_idx of the loop that keeps the last matching line (no break)
HeaderIdxLast(lines) ==
    IF \E i \in DOMAIN lines : StartsWithSamplePos(lines[i])
        THEN CHOOSE i \in DOMAIN lines :
                /\ StartsWithSamplePos(lines[i])
                /\ \A j \in DOMAIN lines : StartsWithSamplePos(lines[j]) => j <= i
    ELSE 0

\* header_idx (1-based; 0 stands for None): the loop breaks at the first match
HeaderIdx(lines) ==
    IF \E i \in DOMAIN lines : StartsWithSamplePos(lines[i])
        THEN CHOOSE i \in DOMAIN lines :
                /\ StartsWithSamplePos(lines[i])
                /\ \A j \in 1..(i - 1) : ~StartsWithSamplePos(lines[j])
    ELSE 0

RECURSIVE Metadata(_, _, _)
\* the loop over the lines before the header: every match assigns
Metadata(lines, upto, acc) ==
    IF upto = 0 THEN acc
    ELSE LET before == Metadata(lines, upto - 1, acc)
             m == MetaOf(lines[upto])
         IN  IF m.tag = "match" THEN [name |-> m.name, version |-> m.version] ELSE before

RECURSIVE StripNonEmpty(_)
StripNonEmpty(toks) ==
    IF toks = <<>> THEN <<>>
    ELSE IF Strip(Head(toks)) = <<>> THEN StripNonEmpty(Tail(toks))
    ELSE <<Strip(Head(toks))>> \o StripNonEmpty(Tail(toks))

\* the channel list without dropping the empty header tokens
HeaderChannelsKeepEmpty(line) ==
    LET headers == StripSplit(line)
    IN  [i \in 1..(IF Len(headers) > 7 THEN Len(headers) - 7 ELSE 0) |-> Strip(headers[7 + i])]

\* [h.strip() for h in headers[7:] if h.strip()]
HeaderChannels(line) ==
    LET headers == StripSplit(line)
    IN  StripNonEmpty(SubSeq(headers, 8, Len(headers)))

\* the try block recording 1.0 where float() raises ValueError
ReadingOneOnError(parts, j) ==
    IF 7 + j + 1 > Len(parts) THEN 0
    ELSE LET v == ParseNumber(parts[7 + j + 1])
         IN  IF v.tag = "raise" THEN 1 ELSE v.val

\* the reading taken from the column after the channel's own
ReadingNextColumn(parts, j) ==
    IF 7 + j + 2 > Len(parts) THEN 0
    ELSE LET v == ParseNumber(parts[7 + j + 2])
         IN  IF v.tag = "raise" THEN 0 ELSE v.val

\* float(parts[7 + j]) of the try block, 0.0 on IndexError or ValueError;
\* j is 0-based as in the source
Reading(parts, j) ==
    IF 7 + j + 1 > Len(parts) THEN 0
    ELSE LET v == ParseNumber(parts[7 + j + 1])
         IN  IF v.tag = "raise" THEN 0 ELSE v.val

RECURSIVE AppendReadings(_, _, _, _)
\* for j, ch in enumerate(channels): raw[well][ch].append(...), from j on
AppendReadings(curves, channels, parts, j) ==
    IF j >= Len(channels) THEN curves
    ELSE LET ch == channels[j + 1]
         IN  AppendReadings([curves EXCEPT ![ch] = Append(@, Reading(parts, j))],
                            channels, parts, j + 1)

EmptyRaw == [keys |-> <<>>, curves |-> <<>>, names |-> <<>>]

\* the data-row loop accepting rows of two fields or more
DataRowNoSkip(raw, channels, line) ==
    LET parts == StripSplit(line)
    IN  IF IsBlankLine(line) THEN raw
        ELSE IF Len(parts) < 2 THEN raw
        ELSE LET well == Strip(parts[1])
                 sample_name == Strip(parts[2])
                 known == \E k \in DOMAIN raw.keys : raw.keys[k] = well
                 raw1 == IF known THEN raw
                         ELSE [keys |-> Append(raw.keys, well),
                               curves |-> Append(raw.curves, [ch \in Range(channels) |-> <<>>]),
                               names |-> Append(raw.names, sample_name)]
                 k == CHOOSE i \in DOMAIN raw1.keys : raw1.keys[i] = well
             IN  [raw1 EXCEPT !.curves[k] = AppendReadings(@, channels, parts, 0)]

\* the body of the data-row loop for one line; raw.keys is the insertion
\* order of the dict, raw.curves[k] and raw.names[k] belong to raw.keys[k]
DataRow(raw, channels, line) ==
    LET parts == StripSplit(line)
    IN  IF IsBlankLine(line) THEN raw
        ELSE IF Len(parts) < 8 THEN raw
        ELSE LET well == Strip(parts[1])
                 sample_name == Strip(parts[2])
                 known == \E k \in DOMAIN raw.keys : raw.keys[k] = well
                 raw1 == IF known THEN raw
                         ELSE [keys |-> Append(raw.keys, well),
                               curves |-> Append(raw.curves, [ch \in Range(channels) |-> <<>>]),
                               names |-> Append(raw.names, sample_name)]
                 k == CHOOSE i \in DOMAIN raw1.keys : raw1.keys[i] = well
             IN  [raw1 EXCEPT !.curves[k] = AppendReadings(@, channels, parts, 0)]

RECURSIVE DataRows(_, _, _, _)
DataRows(lines, from, channels, raw) ==
    IF from > Len(lines) THEN raw
    ELSE DataRows(lines, from + 1, channels, DataRow(raw, channels, lines[from]))

RawIndex(raw, well) == CHOOSE k \in DOMAIN raw.keys : raw.keys[k] = well

\* np.arange(1, n + 1)
Arange1(n) == [i \in 1..n |-> i]

\* the tail of both parsers: sort the wells, build the curve maps, derive
\* num_cycles and cycles; text_parser tells `if data.wells:` (text) from
\* `if data.wells and data.channels:` (XML)
Assemble(meta, channels, raw, sample_names, text_parser) ==
    LET sorted == SortWells(raw.keys)
    IN  IF sorted.tag = "raise" THEN sorted
        ELSE LET wells == sorted.val
                 fluorescence == [w \in Range(wells) |-> raw.curves[RawIndex(raw, w)]]
             IN  IF wells # <<>> /\ channels = <<>> /\ text_parser THEN Raise("IndexError")
                 ELSE LET n == IF wells # <<>> /\ channels # <<>>
                                   THEN Len(fluorescence[wells[1]][channels[1]])
                               ELSE 0
                      IN  LC480Data(meta.name, meta.version, channels, wells,
                                    sample_names, n, fluorescence, Arange1(n))

NoMeta == [name |-> <<>>, version |-> <<>>]

\* parse_lc480_file after the header search
ParseFromHeader(lines, header_idx) ==
    IF header_idx = 0 THEN Raise("ValueError: could not find 'SamplePos' column header")
    ELSE LET meta == Metadata(lines, header_idx - 1, NoMeta)
             channels == HeaderChannels(lines[header_idx])
             raw == DataRows(lines, header_idx + 1, channels, EmptyRaw)
             sample_names == [w \in Range(raw.keys) |-> raw.names[RawIndex(raw, w)]]
         IN  Assemble(meta, channels, raw, sample_names, TRUE)

\* parse_lc480_file on the lines read from the file
parse_lc480_file(lines) == ParseFromHeader(lines, HeaderIdx(lines))

(***************************************************************************)
(* lcpro_parser.py.  The document is modelled as the element tree the      *)
(* parser walks; an element is absent, or present with its text (the empty *)
(* text stands for Python's None).                                         *)
(***************************************************************************)
NoEl == [tag |-> "absent"]
El(text) == [tag |-> "el", text |-> text]

RECURSIVE ToDec(_)
\* str(n) for n >= 0
ToDec(n) == IF n < 10 THEN <<Digits[n + 1]>> ELSE Append(ToDec(n \div 10), Digits[(n % 10) + 1])

\* str(n)
StrOfInt(n) == IF n < 0 THEN <<"-">> \o ToDec(0 - n) ELSE ToDec(n)

SegmentOffset == 32
SegmentFactor == 1000

\* str(fid * 1000 + 32) with the offset forgotten
SegIdOfNoOffset(fid) == StrOfInt(fid * SegmentFactor)

\* seg_id = str(fid * 1000 + 32)
SegIdOf(fid) == StrOfInt(fid * SegmentFactor + SegmentOffset)

RECURSIVE ChannelMap(_, _)
\* the loop over the pcrTarget elements: a list of <<fid, name>> in insertion
\* order of the dict, a repeated fid keeps its place and takes the new name
ChannelMap(targets, upto) ==
    IF upto = 0 THEN Ok(<<>>)
    ELSE LET before == ChannelMap(targets, upto - 1)
             t == targets[upto]
         IN  IF before.tag = "raise" THEN before
             ELSE IF t.filterId.tag = "absent" \/ t.name.tag = "absent" THEN before
             ELSE IF t.name.text = <<>> THEN Raise("AttributeError")
             ELSE IF t.filterId.text = <<>> THEN Raise("TypeError")
             ELSE LET fid == ParseNumber(t.filterId.text)
                      m == before.val
                  IN  IF fid.tag = "raise" THEN fid
                      ELSE IF \E k \in DOMAIN m : m[k][1] = fid.val
                          THEN Ok([k \in DOMAIN m |->
                                     IF m[k][1] = fid.val THEN <<fid.val, Strip(t.name.text)>>
                                     ELSE m[k]])
                      ELSE Ok(Append(m, <<fid.val, Strip(t.name.text)>>))

RECURSIVE InsertByFirst(_, _)
InsertByFirst(sorted, p) ==
    IF sorted = <<>> THEN <<p>>
    ELSE IF p[1] < sorted[Len(sorted)][1]
        THEN Append(InsertByFirst(SubSeq(sorted, 1, Len(sorted) - 1), p), sorted[Len(sorted)])
    ELSE Append(sorted, p)

\* the pairs left in the order they were given
KeepOrder(ps) == ps

RECURSIVE SortByFirst(_)
\* sorted(pairs, key=lambda p: p[0]), stable
SortByFirst(ps) ==
    IF ps = <<>> THEN <<>>
    ELSE InsertByFirst(SortByFirst(SubSeq(ps, 1, Len(ps) - 1)), ps[Len(ps)])

RECURSIVE Acquisitions(_, _, _)
\* the loop over one segment's acquisition elements, appending to points
Acquisitions(acqs, upto, points) ==
    IF upto = 0 THEN Ok(points)
    ELSE LET before == Acquisitions(acqs, upto - 1, points)
             a == acqs[upto]
         IN  IF before.tag = "raise" THEN before
             ELSE IF a.cycle.tag = "absent" \/ a.measuredValue.tag = "absent" THEN before
             ELSE IF a.cycle.text = <<>> THEN Raise("TypeError")
             ELSE LET cycle == ParseNumber(a.cycle.text)
                  IN  IF cycle.tag = "raise" THEN cycle
                      ELSE IF a.measuredValue.text = <<>> THEN Raise("TypeError")
                      ELSE LET value == ParseNumber(a.measuredValue.text)
                           IN  IF value.tag = "raise" THEN value
                               ELSE Ok(Append(before.val, <<cycle.val, value.val>>))

\* seg_to_channel.get(seg_id): distinct filter ids have distinct segment ids
SegToChannel(sorted_map, seg_id) ==
    IF \E k \in DOMAIN sorted_map : SegIdOf(sorted_map[k][1]) = seg_id
        THEN Ok(sorted_map[CHOOSE k \in DOMAIN sorted_map : SegIdOf(sorted_map[k][1]) = seg_id][2])
    ELSE NoneValue

RECURSIVE CurveSegments(_, _, _, _)
\* the loop over one measurement's curveSegment elements; points maps each
\* channel name to its list of (cycle, value)
CurveSegments(segs, upto, sorted_map, points) ==
    IF upto = 0 THEN Ok(points)
    ELSE LET before == CurveSegments(segs, upto - 1, sorted_map, points)
             sg == segs[upto]
         IN  IF before.tag = "raise" THEN before
             ELSE IF sg.segmentId.tag = "absent" THEN before
             ELSE IF sg.segmentId.text = <<>> THEN Raise("AttributeError")
             ELSE LET channel_name == SegToChannel(sorted_map, Strip(sg.segmentId.text))
                  IN  IF channel_name.tag = "None" THEN before
                      ELSE LET got == Acquisitions(sg.acquisitions, Len(sg.acquisitions),
                                                   before.val[channel_name.val])
                           IN  IF got.tag = "raise" THEN got
                               ELSE Ok([before.val EXCEPT ![channel_name.val] = got.val])

RECURSIVE Measurements(_, _, _, _)
\* the loop over the measurement elements; raw as in the text parser, with
\* lists of (cycle, value) for curves
Measurements(ms, upto, sorted_map, channels) ==
    IF upto = 0 THEN Ok(EmptyRaw)
    ELSE LET before == Measurements(ms, upto - 1, sorted_map, channels)
             m == ms[upto]
         IN  IF before.tag = "raise" THEN before
             ELSE IF m.positionName.tag = "absent" \/ m.positionName.text = <<>> THEN before
             ELSE LET well == Strip(m.positionName.text)
                      raw == before.val
                      fresh == [ch \in Range(channels) |-> <<>>]
                      got == CurveSegments(m.segments, Len(m.segments), sorted_map, fresh)
                  IN  IF got.tag = "raise" THEN got
                      ELSE IF \E k \in DOMAIN raw.keys : raw.keys[k] = well
                          THEN Ok([raw EXCEPT !.curves[RawIndex(raw, well)] = got.val])
                      ELSE Ok([keys |-> Append(raw.keys, well),
                               curves |-> Append(raw.curves, got.val),
                               names |-> raw.names])

RECURSIVE SampleNames(_, _)
\* the loop over the sample elements: data.sample_names[well] = sample_id
SampleNames(samples, upto) ==
    IF upto = 0 THEN <<>>
    ELSE LET before == SampleNames(samples, upto - 1)
             sm == samples[upto]
         IN  IF sm.wellPosition.tag = "absent" \/ sm.wellPosition.text = <<>> THEN before
             ELSE LET well == Strip(sm.wellPosition.text)
                  IN  [w \in DOMAIN before \cup {well} |-> IF w = well THEN sm.id ELSE before[w]]

\* the values of every channel of every well in the order they were appended
ValuesInDocumentOrder(raw) ==
    [raw EXCEPT !.curves =
        [k \in DOMAIN raw.curves |->
            [ch \in DOMAIN raw.curves[k] |->
                [i \in DOMAIN raw.curves[k][ch] |-> raw.curves[k][ch][i][2]]]]]

\* [v for _, v in sorted(points)] for every channel of every well
ValuesByCycle(raw) ==
    [raw EXCEPT !.curves =
        [k \in DOMAIN raw.curves |->
            [ch \in DOMAIN raw.curves[k] |->
                LET points == SortByFirst(raw.curves[k][ch])
                IN  [i \in DOMAIN points |-> points[i][2]]]]]

\* parse_lcpro_file on the document read from the file
parse_lcpro_file(doc) ==
    IF doc.tag = "malformed" THEN Raise("ParseError")
    ELSE LET name == IF doc.plate_name.tag = "el" THEN Strip(doc.plate_name.text) ELSE <<>>
             version == IF doc.software_version.tag = "el" /\ doc.software_version.text # <<>>
                            THEN <<"LC Pro", Space>> \o Strip(doc.software_version.text)
                        ELSE <<>>
             channel_map == ChannelMap(doc.targets, Len(doc.targets))
         IN  IF channel_map.tag = "raise" THEN channel_map
             ELSE LET sorted_map == SortByFirst(channel_map.val)
                      channels == [k \in DOMAIN sorted_map |-> sorted_map[k][2]]
                      raw == Measurements(doc.measurements, Len(doc.measurements),
                                          sorted_map, channels)
                  IN  IF raw.tag = "raise" THEN raw
                      ELSE Assemble([name |-> name, version |-> version], channels,
                                    ValuesByCycle(raw.val),
                                    SampleNames(doc.samples, Len(doc.samples)), FALSE)

(***************************************************************************)
(* Exact rational arithmetic standing for the float64 arithmetic of numpy  *)
(***************************************************************************)
Abs(n) == IF n < 0 THEN 0 - n ELSE n

RECURSIVE Gcd(_, _)
Gcd(a, b) == IF b = 0 THEN a ELSE Gcd(b, a % b)

\* the rational n/d (d # 0) in lowest terms with a positive denominator
Rat(n, d) ==
    LET g == Gcd(Abs(n), Abs(d))
        sgn == IF d < 0 THEN 0 - 1 ELSE 1
    IN  [num |-> sgn * (n \div g), den |-> sgn * (d \div g)]

RInt(n) == [num |-> n, den |-> 1]
RAdd(a, b) == Rat(a.num * b.den + b.num * a.den, a.den * b.den)
RSub(a, b) == Rat(a.num * b.den - b.num * a.den, a.den * b.den)
RMul(a, b) == Rat(a.num * b.num, a.den * b.den)
\* a / b for b # 0
RDiv(a, b) == Rat(a.num * b.den, a.den * b.num)
RGeq(a, b) == a.num * b.den >= b.num * a.den
RIsZero(a) == a.num = 0

RECURSIVE SumOver(_, _, _)
\* the sum of f[i], i in 1..n, for a sequence of integers f
SumOver(f, n, acc) == IF n = 0 THEN acc ELSE SumOver(f, n - 1, acc + f[n])

(***************************************************************************)
(* baseline.py                                                             *)
(***************************************************************************)
BaselineSettings(start_cycle, end_cycle, ct_threshold, call_threshold) ==
    [start_cycle |-> start_cycle, end_cycle |-> end_cycle,
     ct_threshold |-> ct_threshold, call_threshold |-> call_threshold]

DefaultStartCycle == 3
DefaultEndCycle == 15
\* the defaults of the dataclass: 3, 15, 1.5, 2.0
DefaultSettings == BaselineSettings(DefaultStartCycle, DefaultEndCycle, Rat(3, 2), RInt(2))

BaselineResults(subtracted, divided, ct, call) ==
    [tag |-> "BaselineResults",
     subtracted |-> subtracted, divided |-> divided, ct |-> ct, call |-> call]

EmptyResults == BaselineResults(<<>>, <<>>, <<>>, <<>>)

\* seq[lo:hi-1]: the slice without its last element
SliceExclusiveEnd(seq, lo, hi) ==
    LET n == Len(seq)
        norm(i) == IF i < 0 THEN (IF i + n < 0 THEN 0 ELSE i + n) ELSE (IF i > n THEN n ELSE i)
    IN  SubSeq(seq, norm(lo) + 1, norm(hi) - 1)

\* Python's seq[lo:hi] for integers lo, hi (negative indices count from the end)
Slice(seq, lo, hi) ==
    LET n == Len(seq)
        norm(i) == IF i < 0 THEN (IF i + n < 0 THEN 0 ELSE i + n) ELSE (IF i > n THEN n ELSE i)
    IN  SubSeq(seq, norm(lo) + 1, norm(hi))

\* a fit forced through the origin: slope sum(xy)/sum(xx), intercept 0
PolyfitThroughOrigin(x, y) ==
    LET n == Len(x)
    IN  IF n = 0 THEN Raise("TypeError: expected non-empty vector for x")
        ELSE IF Len(y) # n THEN Raise("TypeError: expected x and y to have same length")
        ELSE Ok(<<Rat(SumOver([i \in 1..n |-> x[i] * y[i]], n, 0),
                      SumOver([i \in 1..n |-> x[i] * x[i]], n, 0)), RInt(0)>>)

\* np.polyfit(x, y, 1) as <<slope, intercept>>: least squares on two or more
\* points; on one point the minimum-norm solution of the column-scaled
\* system; TypeError on an empty x or on x and y of different lengths
Polyfit(x, y) ==
    LET n == Len(x)
    IN  IF n = 0 THEN Raise("TypeError: expected non-empty vector for x")
        ELSE IF Len(y) # n THEN Raise("TypeError: expected x and y to have same length")
        ELSE IF n = 1 THEN Ok(<<Rat(y[1], 2 * x[1]), Rat(y[1], 2)>>)
        ELSE LET sx == SumOver(x, n, 0)
                 sy == SumOver(y, n, 0)
                 sxx == SumOver([i \in 1..n |-> x[i] * x[i]], n, 0)
                 sxy == SumOver([i \in 1..n |-> x[i] * y[i]], n, 0)
                 det == n * sxx - sx * sx
             IN  Ok(<<Rat(n * sxy - sx * sy, det), Rat(sy * sxx - sx * sxy, det)>>)

\* whether numpy broadcasts two 1-d arrays of lengths a and b
Broadcastable(a, b) == a = b \/ a = 1 \/ b = 1
BroadcastLen(a, b) == IF a = 1 THEN b ELSE a
At(seq, i) == IF Len(seq) = 1 THEN seq[1] ELSE seq[i]

\* _calc_ct with > in place of >=
calc_ct_strict(divided, threshold) ==
    IF \E i \in DOMAIN divided : ~RGeq(threshold, divided[i])
        THEN LET i == CHOOSE k \in DOMAIN divided :
                        /\ ~RGeq(threshold, divided[k])
                        /\ \A j \in 1..(k - 1) : RGeq(threshold, divided[j])
             IN  IF i = 1 THEN Ok(RInt(1))
                 ELSE Ok(RAdd(RInt(i - 1),
                              RDiv(RSub(threshold, divided[i - 1]),
                                   RSub(divided[i], divided[i - 1]))))
    ELSE NoneValue

\* _calc_ct: i is the 1-based position of the first element >= threshold, the
\* source's 0-based index is i - 1
calc_ct(divided, threshold) ==
    IF \E i \in DOMAIN divided : RGeq(divided[i], threshold)
        THEN LET i == CHOOSE k \in DOMAIN divided :
                        /\ RGeq(divided[k], threshold)
                        /\ \A j \in 1..(k - 1) : ~RGeq(divided[j], threshold)
             IN  IF i = 1 THEN Ok(RInt(1))
                 ELSE Ok(RAdd(RInt(i - 1),
                              RDiv(RSub(threshold, divided[i - 1]),
                                   RSub(divided[i], divided[i - 1]))))
    ELSE NoneValue

\* the results of a pair without a curve, the subtracted curve left empty
MissingCurveEmpty(cycles) ==
    [tag |-> "ok",
     subtracted |-> <<>>,
     divided |-> NoneValue, ct |-> NoneValue, call |-> "N/A"]

\* the results of a pair without a curve, called Negative
MissingCurveNegative(cycles) ==
    [tag |-> "ok",
     subtracted |-> [i \in DOMAIN cycles |-> RInt(0)],
     divided |-> NoneValue, ct |-> NoneValue, call |-> "Negative"]

\* the four results of a pair without a curve
MissingCurve(cycles) ==
    [tag |-> "ok",
     subtracted |-> [i \in DOMAIN cycles |-> RInt(0)],
     divided |-> NoneValue, ct |-> NoneValue, call |-> "N/A"]

\* the zero-baseline branch storing a call of Negative
ZeroBaselineNegative(subtracted) ==
    [tag |-> "ok", subtracted |-> subtracted,
     divided |-> NoneValue, ct |-> NoneValue, call |-> "Negative"]

\* the branch taken when np.any(baseline_curve == 0)
ZeroBaseline(subtracted) ==
    [tag |-> "ok", subtracted |-> subtracted,
     divided |-> NoneValue, ct |-> NoneValue, call |-> "N/A"]

\* the call with > in place of >=
CallOfStrict(endpoint_rfi, call_threshold) ==
    IF ~RGeq(call_threshold, endpoint_rfi) THEN "Positive" ELSE "Negative"

\* the call from the endpoint RFI
CallOf(endpoint_rfi, call_threshold) ==
    IF RGeq(endpoint_rfi, call_threshold) THEN "Positive" ELSE "Negative"

\* the body of the channel loop for a pair with a curve: the four values
\* stored for it, or the exception numpy raises
FitCurve(fluor, cycles, settings) ==
    LET start_idx == settings.start_cycle - 1
        end_idx == settings.end_cycle
        fit == Polyfit(Slice(cycles, start_idx, end_idx), Slice(fluor, start_idx, end_idx))
    IN  IF fit.tag = "raise" THEN fit
        ELSE IF ~Broadcastable(Len(fluor), Len(cycles))
            THEN Raise("ValueError: operands could not be broadcast together")
        ELSE LET slope == fit.val[1]
                 intercept == fit.val[2]
                 baseline_curve == [i \in DOMAIN cycles |->
                                       RAdd(RMul(slope, RInt(cycles[i])), intercept)]
                 n == BroadcastLen(Len(fluor), Len(cycles))
                 subtracted == [i \in 1..n |-> RSub(RInt(At(fluor, i)), At(baseline_curve, i))]
             IN  IF \E i \in DOMAIN baseline_curve : RIsZero(baseline_curve[i])
                     THEN ZeroBaseline(subtracted)
                 ELSE LET divided == [i \in 1..n |->
                                         RDiv(RInt(At(fluor, i)), At(baseline_curve, i))]
                      IN  [tag |-> "ok", subtracted |-> subtracted,
                           divided |-> Ok(divided),
                           ct |-> calc_ct(divided, settings.ct_threshold),
                           call |-> CallOf(divided[n], settings.call_threshold)]

\* data.fluorescence.get(well, {}).get(channel)
CurveOf(d, well, channel) ==
    IF well \in DOMAIN d.fluorescence /\ channel \in DOMAIN d.fluorescence[well]
        THEN Ok(d.fluorescence[well][channel])
    ELSE NoneValue

\* the body of the channel loop without the entries of a pair that has no curve
PairResultSkipMissing(d, settings, well, channel) ==
    LET fluor == CurveOf(d, well, channel)
    IN  IF fluor.tag = "None" THEN [tag |-> "skip"]
        ELSE FitCurve(fluor.val, d.cycles, settings)

\* the body of the channel loop fitting every pair's baseline to the curve of
\* the first pair
PairResultSharedFit(d, settings, well, channel) ==
    LET fluor == CurveOf(d, well, channel)
        first == CurveOf(d, d.wells[1], d.channels[1])
    IN  IF fluor.tag = "None" THEN MissingCurve(d.cycles)
        ELSE IF first.tag = "None" THEN FitCurve(fluor.val, d.cycles, settings)
        ELSE LET shared == FitCurve(first.val, d.cycles, settings)
                 own == FitCurve(fluor.val, d.cycles, settings)
             IN  IF shared.tag = "raise" \/ own.tag = "raise" THEN own
                 ELSE [own EXCEPT !.subtracted =
                          [i \in DOMAIN own.subtracted |->
                              RAdd(own.subtracted[i], shared.subtracted[i])]]

\* the body of the channel loop for one (well, channel)
PairResult(d, settings, well, channel) ==
    LET fluor == CurveOf(d, well, channel)
    IN  IF fluor.tag = "None" THEN MissingCurve(d.cycles)
        ELSE FitCurve(fluor.val, d.cycles, settings)

\* the pairs in the order the loops visit them
PairsInOrder(d) ==
    [k \in 1..(Len(d.wells) * Len(d.channels)) |->
        <<d.wells[((k - 1) \div Len(d.channels)) + 1],
          d.channels[((k - 1) % Len(d.channels)) + 1]>>]

\* the loops of compute_baseline visiting the pairs in the given order: the
\* result set, or the first exception
ComputeInOrder(d, settings, pairs) ==
    LET res == [k \in DOMAIN pairs |-> PairResult(d, settings, pairs[k][1], pairs[k][2])]
        kept(w) == {ch \in Range(d.channels) :
                       \E k \in DOMAIN pairs :
                           pairs[k] = <<w, ch>> /\ res[k].tag = "ok"}
        last(w, ch) == res[CHOOSE k \in DOMAIN pairs :
                             /\ pairs[k] = <<w, ch>>
                             /\ \A j \in DOMAIN pairs : pairs[j] = <<w, ch>> => j <= k]
    IN  IF \E k \in DOMAIN pairs : res[k].tag = "raise"
            THEN res[CHOOSE k \in DOMAIN pairs :
                        /\ res[k].tag = "raise"
                        /\ \A j \in 1..(k - 1) : res[j].tag # "raise"]
        ELSE BaselineResults(
                [w \in Range(d.wells) |-> [ch \in kept(w) |-> last(w, ch).subtracted]],
                [w \in Range(d.wells) |-> [ch \in kept(w) |-> last(w, ch).divided]],
                [w \in Range(d.wells) |-> [ch \in kept(w) |-> last(w, ch).ct]],
                [w \in Range(d.wells) |-> [ch \in kept(w) |-> last(w, ch).call]])

\* compute_baseline: for well in data.wells, for channel in data.channels
compute_baseline(d, settings) ==
    IF d.tag = "None" THEN EmptyResults
    ELSE IF d.wells = <<>> THEN EmptyResults
    ELSE ComputeInOrder(d, settings, PairsInOrder(d))

(***************************************************************************)
(* Inputs of the parser specification                                      *)
(***************************************************************************)
MaxLines == 4
MaxTargets == 2
MaxMeasurements == 2

Ch1 == <<"465-510">>
Ch2 == <<"533-580">>
A1 == <<"A", "1">>
B1 == <<"B", "1">>
A2 == <<"A", "2">>

\* a header line: SamplePos, six instrument columns, the channel columns
HeaderLine(chs) ==
    << <<"SamplePos">>, <<"SampleName">>, <<"Prog#">>, <<"Seg#">>, <<"Cycle#">>,
       <<"Time">>, <<"Temp">> >> \o chs

\* a data line: well id, sample name, five instrument columns, the readings
DataLine(well, name, readings) ==
    <<well, name, <<"2">>, <<"1">>, <<"1">>, <<"0">>, <<"6", "0">>>> \o readings

Header1 == HeaderLine(<<Ch1>>)
Header2 == HeaderLine(<<Ch1, <<Space>> \o Ch2>>)
HeaderDup == HeaderLine(<<Ch1, Ch1>>)
HeaderGap == HeaderLine(<< <<Space>>, Ch2>>)
HeaderBare == << <<"SamplePos">> >>
RowA1a == DataLine(A1 \o <<Space>>, <<"S", "1">>, << <<"1">>, <<"2">> >>)
RowA1b == DataLine(A1, <<"S", "x">>, << <<"3">>, <<Space, "4">> >>)
RowB1 == DataLine(B1, <<"S", "2">>, << <<"5">>, <<"x">> >>)
RowA2 == DataLine(A2, <<>>, << <<"1", "2">> >>)
RowBadWell == DataLine(<<"A", "x">>, <<"S", "3">>, << <<"8">>, <<"9">> >>)
RowShort == <<B1, <<"S", "2">>, <<"7">>>>
BlankLine == << <<Space>>, <<>> >>
MetaLine ==
    << <<"Experiment", Space, "-", Space, "R", "7", Space, "(Run on LCS480", Space,
         "1", ".", "5", ")">> >>

MetaLineB ==
    << <<"Experiment", Space, "-", Space, "Q", Space, "(Run on LCS480", Space, "2", ")">> >>
\* files with two different metadata lines before the header
MetaFiles ==
    {[kind |-> "text", lines |-> <<MetaLine, MetaLineB, Header1, RowA1a>>],
     [kind |-> "text", lines |-> <<MetaLineB, BlankLine, MetaLine, Header1>>]}

TextLines ==
    {Header1, Header2, HeaderDup, HeaderGap, HeaderBare,
     RowA1a, RowA1b, RowB1, RowA2, RowBadWell, RowShort, BlankLine, MetaLine}

PlateRows == 8
PlateCols == 12
WellId(r, c) == <<Letters[r]>> \o ToDec(c)
\* the 96 wells row by row from H12 back to A1, row by row from A1, and
\* column by column from A1
PlateReversed ==
    Tuple([k \in 1..(PlateRows * PlateCols) |->
        WellId(PlateRows - ((k - 1) \div PlateCols), PlateCols - ((k - 1) % PlateCols))])
PlateRowMajor ==
    Tuple([k \in 1..(PlateRows * PlateCols) |->
        WellId(((k - 1) \div PlateCols) + 1, ((k - 1) % PlateCols) + 1)])
PlateColumnMajor ==
    Tuple([k \in 1..(PlateRows * PlateCols) |->
        WellId(((k - 1) % PlateRows) + 1, ((k - 1) \div PlateRows) + 1)])

\* a one-channel, one-cycle file of the 96 wells in the given order
PlateFile(order) ==
    [kind |-> "text",
     lines |-> <<Header1>> \o Tuple([k \in DOMAIN order |-> DataLine(order[k], <<"S">>, << <<"1">> >>)])]

\* the text inputs: every file of at most max_lines lines, the full plates,
\* the metadata files
TextFiles(max_lines) ==
    {[kind |-> "text", lines |-> ls] : ls \in SeqsUpTo(TextLines, max_lines)}
        \cup {PlateFile(PlateReversed), PlateFile(PlateRowMajor)}
        \cup MetaFiles

Acq(cycle, value) == [cycle |-> cycle, measuredValue |-> value]
Segment(id, acqs) == [segmentId |-> id, acquisitions |-> acqs]
Measurement(pos, segs) == [positionName |-> pos, segments |-> segs]
Target(fid, name) == [filterId |-> fid, name |-> name]

AcqsReversed == <<Acq(El(<<"2">>), El(<<"6">>)), Acq(El(<<"1">>), El(<<"5">>))>>
AcqsGap == <<Acq(El(<<"1">>), El(<<"3">>)), Acq(El(<<"4">>), El(<<"7">>))>>
AcqsPartial == <<Acq(El(<<"1">>), El(<<"9">>)), Acq(NoEl, El(<<"8">>))>>
AcqsBad == <<Acq(El(<<"x">>), El(<<"1">>))>>
AcqsTie == <<Acq(El(<<"1">>), El(<<"6">>)), Acq(El(<<"1">>), El(<<"5">>))>>

Targets ==
    {Target(El(<<"2">>), El(Ch2)),
     Target(El(<<"1">>), El(Ch1 \o <<Space>>)),
     Target(El(<<"1", "0">>), El(Ch1)),
     Target(El(<<"2">>), El(Ch1)),
     Target(El(<<"x">>), El(Ch2))}

MeasurementSet ==
    {Measurement(El(B1), <<Segment(El(<<"1", "0", "3", "2">>), AcqsReversed),
                           Segment(El(<<"2", "0", "3", "2">>), AcqsGap)>>),
     Measurement(El(A2 \o <<Space>>), <<Segment(El(<<"2", "0", "3", "2">>), AcqsReversed),
                                        Segment(El(<<"9", "9">>), AcqsBad)>>),
     Measurement(El(A1), <<Segment(El(<<"1", "0", "3", "2">>), AcqsPartial),
                           Segment(NoEl, AcqsGap),
                           Segment(El(<<"2", "0", "3", "2">>), AcqsTie)>>),
     Measurement(NoEl, <<Segment(El(<<"1", "0", "3", "2">>), AcqsGap)>>),
     Measurement(El(<<"x">>), <<>>)}

SampleLists ==
    {<<>>,
     <<[wellPosition |-> El(A1), id |-> <<"S", "1">>],
       [wellPosition |-> NoEl, id |-> <<"S", "2">>]>>}

\* the XML inputs: an unparsable document, and the trees of at most
\* max_targets pcrTarget and max_measurements measurement elements
XmlDocs(max_targets, max_measurements) ==
    {[kind |-> "xml", tag |-> "malformed"]} \cup
    {[kind |-> "xml", tag |-> "root",
      plate_name |-> El(<<"R", "7">>), software_version |-> El(<<"1">>),
      targets |-> ts, measurements |-> ms, samples |-> ss] :
        ts \in SeqsUpTo(Targets, max_targets),
        ms \in SeqsUpTo(MeasurementSet, max_measurements),
        ss \in SampleLists}

Idle == [tag |-> "idle"]
NotParsed == [tag |-> "not parsed"]

(***************************************************************************)
(* The parser specification: a file is chosen and handed to its parser     *)
(***************************************************************************)
WindowIdle ==
    /\ data = NoneValue
    /\ baseline_settings = DefaultSettings
    /\ baseline_results = NoneValue
    /\ dlg = Idle
    /\ last_op = "idle"
    /\ called = FALSE

EngineIdle == eng_in = Idle /\ eng_out = Idle
ParsersIdle == input = Idle /\ parsed = Idle
WidgetsIdle ==
    /\ plate_map = Idle
    /\ sample_table = Idle
    /\ curve_viewer = Idle
    /\ syncing = Idle
    /\ signals = Idle

InitParsers ==
    /\ input \in TextFiles(MaxLines) \cup XmlDocs(MaxTargets, MaxMeasurements)
    /\ parsed = NotParsed
    /\ WindowIdle
    /\ EngineIdle
    /\ WidgetsIdle

ParseText ==
    /\ input.kind = "text"
    /\ parsed = NotParsed
    /\ parsed' = parse_lc480_file(input.lines)
    /\ UNCHANGED <<data, baseline_settings, baseline_results, dlg, last_op, called,
                   input, eng_in, eng_out, widgets>>

ParseXml ==
    /\ input.kind = "xml"
    /\ parsed = NotParsed
    /\ parsed' = parse_lcpro_file(input)
    /\ UNCHANGED <<data, baseline_settings, baseline_results, dlg, last_op, called,
                   input, eng_in, eng_out, widgets>>

NextParsers == ParseText \/ ParseXml

SpecParsers == InitParsers /\ [][NextParsers]_vars

(***************************************************************************)
(* The engine specification: compute_baseline applied to a dataset and     *)
(* settings, the dataset not necessarily one a parser returns              *)
(***************************************************************************)
MaxCycles == 3

\* curves over n cycles: constant, rising, a late jump, negative start, a
\* negative start with a late jump, and one reading short
CurvesOf(n) ==
    {[i \in 1..n |-> 2], [i \in 1..n |-> i], [i \in 1..n |-> IF i = n THEN 8 ELSE 1],
     [i \in 1..n |-> i - 2], [i \in 1..n |-> IF i = n THEN 5 ELSE i - 2],
     [i \in 1..(n - 1) |-> 4]}

\* a dataset over the given wells and channels: each pair has one of the
\* curves or none
DatasetsOver(wells, channels, n) ==
    {LC480Data(<<>>, <<>>, channels, wells, [w \in Range(wells) |-> <<>>], n,
               [w \in Range(wells) |-> [ch \in have[w] |-> curve[w][ch]]], Arange1(n)) :
        have \in [Range(wells) -> SUBSET Range(channels)],
        curve \in [Range(wells) -> [Range(channels) -> CurvesOf(n)]]}

EngineDatasets ==
    {NoneValue}
        \cup DatasetsOver(<<>>, <<Ch1>>, 0)
        \cup DatasetsOver(<<A1>>, <<Ch1, Ch2>>, MaxCycles)
        \cup DatasetsOver(<<B1, A2>>, <<Ch1>>, MaxCycles)

EngineSettings ==
    {BaselineSettings(1, 2, Rat(3, 2), RInt(2)),
     BaselineSettings(1, MaxCycles, Rat(1, 2), RInt(1)),
     BaselineSettings(MaxCycles, DefaultEndCycle, Rat(3, 2), RInt(2)),
     BaselineSettings(2, 2, Rat(3, 2), RInt(2)),
     BaselineSettings(1, 2, RInt(2), RInt(1)),
     BaselineSettings(2, MaxCycles, Rat(3, 2), RInt(2))}

NotComputed == [tag |-> "not computed"]

InitEngine ==
    /\ eng_in \in {[data |-> d, settings |-> st] : d \in EngineDatasets, st \in EngineSettings}
    /\ eng_out = NotComputed
    /\ WindowIdle
    /\ ParsersIdle
    /\ WidgetsIdle

\* compute_baseline overwriting the settings' start_cycle with the 0-based
\* start index it computes
ComputeInPlace ==
    /\ eng_out = NotComputed
    /\ eng_out' = compute_baseline(eng_in.data, eng_in.settings)
    /\ eng_in' = [eng_in EXCEPT !.settings.start_cycle = @ - 1]
    /\ UNCHANGED <<data, baseline_settings, baseline_results, dlg, last_op, called,
                   input, parsed, widgets>>

Compute ==
    /\ eng_out = NotComputed
    /\ eng_out' = compute_baseline(eng_in.data, eng_in.settings)
    /\ UNCHANGED <<data, baseline_settings, baseline_results, dlg, last_op, called,
                   input, parsed, eng_in, widgets>>

NextEngine == Compute

SpecEngine == InitEngine /\ [][NextEngine]_vars

(***************************************************************************)
(* The Ct specification: _calc_ct applied to a normalized curve and a      *)
(* threshold                                                               *)
(***************************************************************************)
MaxCurveLen == 3

\* readings of a normalized curve: 0.5, 0.8, 1.2, 2.0, 3.0
RfiValues == {Rat(1, 2), Rat(4, 5), Rat(6, 5), RInt(2), RInt(3)}
ExampleCurve == <<Rat(1, 2), Rat(4, 5), Rat(6, 5), RInt(2), RInt(3)>>
CtCurves == SeqsUpTo(RfiValues, MaxCurveLen) \cup {ExampleCurve}
CtThresholds == {Rat(1, 2), Rat(3, 2), Rat(7, 2)}

InitCt ==
    /\ eng_in \in {[divided |-> c, threshold |-> t] : c \in CtCurves, t \in CtThresholds}
    /\ eng_out = NotComputed
    /\ WindowIdle
    /\ ParsersIdle
    /\ WidgetsIdle

CalcCt ==
    /\ eng_out = NotComputed
    /\ eng_out' = calc_ct(eng_in.divided, eng_in.threshold)
    /\ UNCHANGED <<data, baseline_settings, baseline_results, dlg, last_op, called,
                   input, parsed, eng_in, widgets>>

NextCt == CalcCt

SpecCt == InitCt /\ [][NextCt]_vars

(***************************************************************************)
(* _calc_ct in rounded arithmetic.  Every float64 operation returns the    *)
(* representable number nearest to the exact result; the model keeps that  *)
(* rule with a significand of FloatBits bits in place of 53, and leaves    *)
(* the exponent unbounded.                                                 *)
(***************************************************************************)
FloatBits == 4
MaxExponent == 12

RECURSIVE Pow2(_)
Pow2(k) == IF k = 0 THEN 1 ELSE 2 * Pow2(k - 1)

\* x * 2^k for a rational x and an integer k
Scale(x, k) == IF k >= 0 THEN Rat(x.num * Pow2(k), x.den) ELSE Rat(x.num, x.den * Pow2(0 - k))

\* the nearest integer to the rational s >= 0, a tie going to the even one
NearestEven(s) ==
    LET fl == s.num \div s.den
        twice == 2 * (s.num % s.den)
    IN  IF twice < s.den THEN fl
        ELSE IF twice > s.den THEN fl + 1
        ELSE IF fl % 2 = 0 THEN fl ELSE fl + 1

\* the representable number nearest to x > 0: x is scaled to a significand in
\* 2^(FloatBits-1) .. 2^FloatBits, rounded to an integer and scaled back
RoundPositive(x) ==
    LET k == CHOOSE j \in (0 - MaxExponent)..MaxExponent :
                 /\ Scale(x, j).num >= Pow2(FloatBits - 1) * Scale(x, j).den
                 /\ Scale(x, j).num < Pow2(FloatBits) * Scale(x, j).den
    IN  Scale(RInt(NearestEven(Scale(x, k))), 0 - k)

\* round to nearest, ties to even
RoundF(x) ==
    IF x.num = 0 THEN x
    ELSE IF x.num > 0 THEN RoundPositive(x)
    ELSE RSub(RInt(0), RoundPositive(RSub(RInt(0), x)))

\* float subtraction, division and addition
FSub(a, b) == RoundF(RSub(a, b))
FDiv(a, b) == RoundF(RDiv(a, b))
FAdd(a, b) == RoundF(RAdd(a, b))

\* _calc_ct returning float(i + 1) + fraction
calc_ct_rounded_late(divided, threshold) ==
    IF \E i \in DOMAIN divided : RGeq(divided[i], threshold)
        THEN LET i == CHOOSE k \in DOMAIN divided :
                        /\ RGeq(divided[k], threshold)
                        /\ \A j \in 1..(k - 1) : ~RGeq(divided[j], threshold)
             IN  IF i = 1 THEN Ok(RInt(1))
                 ELSE Ok(FAdd(RInt(i),
                              FDiv(FSub(threshold, divided[i - 1]),
                                   FSub(divided[i], divided[i - 1]))))
    ELSE NoneValue

\* _calc_ct with each operation rounded; i is the 1-based position of the
\* first element >= threshold, the source's 0-based index is i - 1
calc_ct_rounded(divided, threshold) ==
    IF \E i \in DOMAIN divided : RGeq(divided[i], threshold)
        THEN LET i == CHOOSE k \in DOMAIN divided :
                        /\ RGeq(divided[k], threshold)
                        /\ \A j \in 1..(k - 1) : ~RGeq(divided[j], threshold)
             IN  IF i = 1 THEN Ok(RInt(1))
                 ELSE Ok(FAdd(RInt(i - 1),
                              FDiv(FSub(threshold, divided[i - 1]),
                                   FSub(divided[i], divided[i - 1]))))
    ELSE NoneValue

\* representable readings: 0.5, 1.375, 1.5, 1.75, 2, 15
FloatValues == {Rat(1, 2), Rat(11, 8), Rat(3, 2), Rat(7, 4), RInt(2), RInt(15)}
FloatCurves == SeqsUpTo(FloatValues, MaxCurveLen)
FloatThresholds == {Rat(3, 2), RInt(2)}

InitFloat ==
    /\ eng_in \in {[divided |-> c, threshold |-> t] : c \in FloatCurves, t \in FloatThresholds}
    /\ eng_out = NotComputed
    /\ WindowIdle
    /\ ParsersIdle
    /\ WidgetsIdle

CalcCtRounded ==
    /\ eng_out = NotComputed
    /\ eng_out' = calc_ct_rounded(eng_in.divided, eng_in.threshold)
    /\ UNCHANGED <<data, baseline_settings, baseline_results, dlg, last_op, called,
                   input, parsed, eng_in, widgets>>

NextFloat == CalcCtRounded

SpecFloat == InitFloat /\ [][NextFloat]_vars

(***************************************************************************)
(* baseline.py, BaselineSettingsDialog: the spin boxes of the dialog       *)
(***************************************************************************)
Min(a, b) == IF a < b THEN a ELSE b
Max(a, b) == IF a > b THEN a ELSE b
Clamp(v, lo, hi) == Max(lo, Min(v, hi))

\* QSpinBox.setRange: a maximum below the minimum is raised to it, the value
\* is brought into the range
SetRange(spin, lo, hi) ==
    [min |-> lo, max |-> Max(lo, hi), value |-> Clamp(spin.value, lo, Max(lo, hi))]
SetValue(spin, v) == [spin EXCEPT !.value = Clamp(v, spin.min, spin.max)]
SetMinimum(spin, lo) == SetRange(spin, lo, Max(lo, spin.max))
SetMaximum(spin, hi) == SetRange(spin, Min(spin.min, hi), hi)

\* a QSpinBox as constructed: range 0..99, value 0
NewSpinBox == [min |-> 0, max |-> 99, value |-> 0]

ThresholdMin == Rat(1, 100)
ThresholdMax == RInt(100)
\* QDoubleSpinBox.setValue within the range 0.01..100.0
SetThreshold(v) ==
    IF ~RGeq(v, ThresholdMin) THEN ThresholdMin
    ELSE IF ~RGeq(ThresholdMax, v) THEN ThresholdMax
    ELSE v

DialogClosed == [tag |-> "closed"]

\* BaselineSettingsDialog.__init__: the valueChanged handlers are connected
\* after both spin boxes are set
NewDialog(st, num_cycles) ==
    [tag |-> "open",
     start_spin |-> SetValue(SetRange(NewSpinBox, 1, Max(num_cycles - 1, 1)), st.start_cycle),
     end_spin |-> SetValue(SetRange(NewSpinBox, 2, num_cycles), st.end_cycle),
     ct_spin |-> SetThreshold(st.ct_threshold),
     call_spin |-> SetThreshold(st.call_threshold)]

\* the valueChanged handlers run to quiescence: a value moved by a range
\* change signals in turn
RECURSIVE StartChanged(_)
RECURSIVE EndChanged(_)
\* _start_spin.valueChanged: self._end_spin.setMinimum(v + 1)
StartChanged(d) ==
    LET e == SetMinimum(d.end_spin, d.start_spin.value + 1)
        d1 == [d EXCEPT !.end_spin = e]
    IN  IF e.value # d.end_spin.value THEN EndChanged(d1) ELSE d1
\* _end_spin.valueChanged: self._start_spin.setMaximum(v - 1)
EndChanged(d) ==
    LET b == SetMaximum(d.start_spin, d.end_spin.value - 1)
        d1 == [d EXCEPT !.start_spin = b]
    IN  IF b.value # d.start_spin.value THEN StartChanged(d1) ELSE d1

\* apply_to without writing the cycle bounds back
apply_to_thresholds_only(d, st) ==
    [st EXCEPT !.ct_threshold = d.ct_spin, !.call_threshold = d.call_spin]

\* BaselineSettingsDialog.apply_to
apply_to(d, st) ==
    BaselineSettings(d.start_spin.value, d.end_spin.value, d.ct_spin, d.call_spin)

(***************************************************************************)
(* curve_viewer_widget.py: whether drawing the selected wells raises       *)
(***************************************************************************)
DEFAULT_CHANNEL == Ch1

\* channel_selector.checked_items() as set_data leaves it: the default
\* channel where the dataset has it, else the first channel
CheckedItems(d) ==
    IF d.channels = <<>> THEN <<>>
    ELSE IF DEFAULT_CHANNEL \in Range(d.channels)
        THEN SelectSeq(d.channels, LAMBDA ch : ch = DEFAULT_CHANNEL)
    ELSE <<d.channels[1]>>

\* plot.plot(self._data.cycles, y): pyqtgraph raises when x and y differ in
\* length
PlotRaises(d, well, channel) ==
    LET y == CurveOf(d, well, channel)
    IN  y.tag = "ok" /\ Len(y.val) # Len(d.cycles)

\* CurveViewerWidget.refresh: whether drawing the selected wells raises
RefreshRaises(cv) ==
    /\ cv.data.tag # "None"
    /\ cv.selected_wells # {}
    /\ LET checked == CheckedItems(cv.data)
       IN  \E well \in cv.selected_wells \cap Range(cv.data.wells) :
               \E i \in DOMAIN checked : PlotRaises(cv.data, well, checked[i])

(***************************************************************************)
(* main_window.py: file import and baseline settings                       *)
(***************************************************************************)
DefaultNumCycles == 45

\* values a user types into the cycle spin boxes, thresholds a user sets
SpinInputs == {1, 2, 3, DefaultEndCycle, DefaultNumCycles}
CtInputs == {Rat(1, 2), Rat(3, 2)}
CallInputs == {RInt(1)}

FileRows == 4
\* a one-well file of n cycles with a rising signal
CyclesFile(n) == <<Header1>> \o Tuple([i \in 1..n |-> DataLine(A1, <<"S">>, <<ToDec(i * i)>>)])

\* the files offered to the import dialog: no header; header only; two, three
\* and four cycles; two wells of different lengths; two channels
WindowFiles ==
    {<<MetaLine, RowA1a>>,
     <<Header1>>,
     CyclesFile(2), CyclesFile(FileRows - 1), CyclesFile(FileRows),
     <<Header1, RowA1a, RowA1b, RowA2>>,
     <<Header2, RowA1a, RowA1b, RowA1a>>}

NoFile == <<>>

\* parse_lc480_file on each of the files, computed once
WindowParsed == {<<f, parse_lc480_file(f)>> : f \in WindowFiles}
ParsedFile(f) == (CHOOSE o \in WindowParsed : o[1] = f)[2]

\* _on_data_loaded selects every well of the new dataset: whether drawing
\* them raises before _recompute_baseline is reached
LoadDrawRaises(d) == RefreshRaises([data |-> d, selected_wells |-> Range(d.wells)])

\* _recompute_baseline: the stored results after it, an exception of
\* compute_baseline leaving them as they were
RecomputedResults(d, st, old) ==
    IF d.tag = "None" THEN old
    ELSE LET r == compute_baseline(d, st)
         IN  IF r.tag = "raise" THEN old ELSE r

\* _import_file that clears the dataset before parsing
import_file_clearing(f) ==
    /\ dlg = DialogClosed
    /\ UNCHANGED <<baseline_settings, dlg, input, parsed, eng_in, eng_out, widgets>>
    /\ IF f = NoFile
           THEN last_op' = "import cancelled" /\ called' = FALSE
                /\ UNCHANGED <<data, baseline_results>>
       ELSE LET d == ParsedFile(f)
            IN  IF d.tag = "raise"
                    THEN /\ last_op' = "import error" /\ called' = FALSE
                         /\ data' = NoneValue
                         /\ UNCHANGED baseline_results
                ELSE IF LoadDrawRaises(d)
                    THEN /\ last_op' = "import" /\ called' = FALSE
                         /\ data' = d
                         /\ UNCHANGED baseline_results
                ELSE /\ last_op' = "import" /\ called' = TRUE
                     /\ data' = d
                     /\ baseline_results' = RecomputedResults(d, baseline_settings, baseline_results)

\* _import_file with _on_data_loaded: f is the content of the chosen file,
\* NoFile a cancelled file dialog
import_file(f) ==
    /\ dlg = DialogClosed
    /\ UNCHANGED <<baseline_settings, dlg, input, parsed, eng_in, eng_out, widgets>>
    /\ IF f = NoFile
           THEN last_op' = "import cancelled" /\ called' = FALSE
                /\ UNCHANGED <<data, baseline_results>>
       ELSE LET d == ParsedFile(f)
            IN  IF d.tag = "raise"
                    THEN /\ last_op' = "import error" /\ called' = FALSE
                         /\ UNCHANGED <<data, baseline_results>>
                ELSE IF LoadDrawRaises(d)
                    THEN /\ last_op' = "import" /\ called' = FALSE
                         /\ data' = d
                         /\ UNCHANGED baseline_results
                ELSE /\ last_op' = "import" /\ called' = TRUE
                     /\ data' = d
                     /\ baseline_results' = RecomputedResults(d, baseline_settings, baseline_results)

ImportFile == \E f \in WindowFiles \cup {NoFile} : import_file(f)

\* _open_baseline_settings up to dlg.exec()
OpenBaselineSettings ==
    /\ dlg = DialogClosed
    /\ dlg' = NewDialog(baseline_settings,
                        IF data.tag # "None" THEN data.num_cycles ELSE DefaultNumCycles)
    /\ last_op' = "dialog opened"
    /\ called' = FALSE
    /\ UNCHANGED <<data, baseline_settings, baseline_results, input, parsed, eng_in, eng_out, widgets>>

EditStart ==
    /\ dlg.tag = "open"
    /\ \E v \in SpinInputs :
          /\ dlg.start_spin.min <= v /\ v <= dlg.start_spin.max
          /\ v # dlg.start_spin.value
          /\ dlg' = StartChanged([dlg EXCEPT !.start_spin.value = v])
    /\ last_op' = "edit"
    /\ called' = FALSE
    /\ UNCHANGED <<data, baseline_settings, baseline_results, input, parsed, eng_in, eng_out, widgets>>

EditEnd ==
    /\ dlg.tag = "open"
    /\ \E v \in SpinInputs :
          /\ dlg.end_spin.min <= v /\ v <= dlg.end_spin.max
          /\ v # dlg.end_spin.value
          /\ dlg' = EndChanged([dlg EXCEPT !.end_spin.value = v])
    /\ last_op' = "edit"
    /\ called' = FALSE
    /\ UNCHANGED <<data, baseline_settings, baseline_results, input, parsed, eng_in, eng_out, widgets>>

EditThresholds ==
    /\ dlg.tag = "open"
    /\ \E ct \in CtInputs, call \in CallInputs :
          /\ <<ct, call>> # <<dlg.ct_spin, dlg.call_spin>>
          /\ dlg' = [dlg EXCEPT !.ct_spin = SetThreshold(ct), !.call_spin = SetThreshold(call)]
    /\ last_op' = "edit"
    /\ called' = FALSE
    /\ UNCHANGED <<data, baseline_settings, baseline_results, input, parsed, eng_in, eng_out, widgets>>

\* the dialog accepted: apply_to, then _recompute_baseline
AcceptDialog ==
    /\ dlg.tag = "open"
    /\ dlg' = DialogClosed
    /\ baseline_settings' = apply_to(dlg, baseline_settings)
    /\ baseline_results' = RecomputedResults(data, baseline_settings', baseline_results)
    /\ last_op' = "accept"
    /\ called' = (data.tag # "None")
    /\ UNCHANGED <<data, input, parsed, eng_in, eng_out, widgets>>

RejectDialog ==
    /\ dlg.tag = "open"
    /\ dlg' = DialogClosed
    /\ last_op' = "reject"
    /\ called' = FALSE
    /\ UNCHANGED <<data, baseline_settings, baseline_results, input, parsed, eng_in, eng_out, widgets>>

Init ==
    /\ data = NoneValue
    /\ baseline_settings = DefaultSettings
    /\ baseline_results = NoneValue
    /\ dlg = DialogClosed
    /\ last_op = "init"
    /\ called = FALSE
    /\ ParsersIdle
    /\ EngineIdle
    /\ WidgetsIdle

Next ==
    \/ ImportFile
    \/ OpenBaselineSettings
    \/ EditStart
    \/ EditEnd
    \/ EditThresholds
    \/ AcceptDialog
    \/ RejectDialog

Spec == Init /\ [][Next]_vars

(***************************************************************************)
(* plate_map_widget.py, sample_table_widget.py, curve_viewer_widget.py and *)
(* main_window.py: selection synchronisation.  The operators work on a     *)
(* record w of the three widgets, MainWindow._syncing, the signals of the  *)
(* running operation and whether an exception is propagating.              *)
(***************************************************************************)
\* CurveViewerWidget.set_data
CurveViewer_set_data(w, d) ==
    LET cv == [w.curve_viewer EXCEPT !.data = d]
    IN  [w EXCEPT !.curve_viewer = cv, !.raised = RefreshRaises(cv)]

\* CurveViewerWidget.set_selected_wells
CurveViewer_set_selected_wells(w, wells) ==
    LET cv == [w.curve_viewer EXCEPT !.selected_wells = wells]
    IN  [w EXCEPT !.curve_viewer = cv, !.raised = RefreshRaises(cv)]

\* PlateMapWidget.set_data
PlateMap_set_data(w, wells) ==
    [w EXCEPT !.plate_map.wells_with_data = Range(wells)]

\* PlateMapWidget.set_selection: no signal is emitted
PlateMap_set_selection(w, wells) ==
    [w EXCEPT !.plate_map.selected_wells = wells]

\* a slot called through a signal: PySide6 reports an exception of the slot
\* and returns to the emitter
Delivered(w) ==
    IF w.raised THEN [w EXCEPT !.raised = FALSE, !.signals = Append(@, "exception")]
    ELSE w

\* MainWindow._on_table_selection
MainWindow_on_table_selection(w, wells) ==
    IF w.syncing THEN w
    ELSE LET w1 == [w EXCEPT !.syncing = TRUE,
                             !.signals = Append(@, "_on_table_selection")]
             w2 == PlateMap_set_selection(w1, wells)
             w3 == CurveViewer_set_selected_wells(w2, wells)
         IN  IF w3.raised THEN w3 ELSE [w3 EXCEPT !.syncing = FALSE]

\* the well texts of the selected rows
SelectedRowWells(t) == {t.rows[i] : i \in t.selected}

\* SampleTableWidget._on_selection_changed
SampleTable_on_selection_changed(w) ==
    IF w.sample_table.syncing THEN w
    ELSE Delivered(MainWindow_on_table_selection(
             [w EXCEPT !.signals = Append(@, "sample_table.selectionChanged")],
             SelectedRowWells(w.sample_table)))

\* the table's selection model: selectionChanged reaches the slot when the
\* selected rows change
SelectRows(w, selected) ==
    IF selected = w.sample_table.selected THEN w
    ELSE SampleTable_on_selection_changed([w EXCEPT !.sample_table.selected = selected])

\* SampleTableWidget.set_data: setRowCount keeps the selected rows that remain
SampleTable_set_data(w, d) ==
    LET w1 == [w EXCEPT !.sample_table.syncing = TRUE, !.sample_table.rows = d.wells]
        w2 == SelectRows(w1, w.sample_table.selected \cap DOMAIN d.wells)
    IN  [w2 EXCEPT !.sample_table.syncing = FALSE]

\* SampleTableWidget.set_selection
SampleTable_set_selection(w, wells) ==
    LET w1 == [w EXCEPT !.sample_table.syncing = TRUE]
        rows == w1.sample_table.rows
        w2 == SelectRows(w1, {i \in DOMAIN rows : rows[i] \in wells})
    IN  [w2 EXCEPT !.sample_table.syncing = FALSE]

\* MainWindow._on_plate_selection
MainWindow_on_plate_selection(w, wells) ==
    IF w.syncing THEN w
    ELSE LET w1 == [w EXCEPT !.syncing = TRUE,
                             !.signals = Append(@, "_on_plate_selection")]
             w2 == SampleTable_set_selection(w1, wells)
             w3 == CurveViewer_set_selected_wells(w2, wells)
         IN  IF w3.raised THEN w3 ELSE [w3 EXCEPT !.syncing = FALSE]

\* MainWindow._on_data_loaded up to the end of the selection block
MainWindow_on_data_loaded(w, d) ==
    LET w1 == PlateMap_set_data(w, d.wells)
        w2 == SampleTable_set_data(w1, d)
        w3 == CurveViewer_set_data(w2, d)
        all_wells == Range(d.wells)
        w4 == [w3 EXCEPT !.syncing = TRUE]
        w5 == PlateMap_set_selection(w4, all_wells)
        w6 == SampleTable_set_selection(w5, all_wells)
        w7 == CurveViewer_set_selected_wells(w6, all_wells)
    IN  IF w3.raised THEN w3
        ELSE IF w7.raised THEN w7
        ELSE [w7 EXCEPT !.syncing = FALSE]
MaxPlateRow == 2
MaxPlateCol == 2

\* the wells of a plate row and of a plate column that hold data
RowWells(pm, row) == {WellId(row, c) : c \in 1..PlateCols} \cap pm.wells_with_data
ColWells(pm, col) == {WellId(r, col) : r \in 1..PlateRows} \cap pm.wells_with_data

\* a label click: the wells are removed when all of them are selected, else
\* added
LabelToggled(pm, wells) ==
    IF wells # {} /\ wells \subseteq pm.selected_wells
        THEN pm.selected_wells \ wells
    ELSE pm.selected_wells \cup wells

\* self.selectionChanged.emit(set(self._selected_wells)) with the selection
\* the operation has just stored
PlateMap_emit(w, selected) ==
    Delivered(MainWindow_on_plate_selection(
        [w EXCEPT !.plate_map.selected_wells = selected,
                  !.signals = Append(@, "plate_map.selectionChanged")],
        selected))

\* mouseReleaseEvent without a drag, on a well
PlateMap_well_click(w, row, col) ==
    LET well == WellId(row, col)
        sel == w.plate_map.selected_wells
    IN  IF well \in w.plate_map.wells_with_data
            THEN PlateMap_emit(w, IF well \in sel THEN sel \ {well} ELSE sel \cup {well})
        ELSE w

\* mouseReleaseEvent without a drag, on a row label and on a column label
PlateMap_row_label_click(w, row) ==
    PlateMap_emit(w, LabelToggled(w.plate_map, RowWells(w.plate_map, row)))
PlateMap_col_label_click(w, col) ==
    PlateMap_emit(w, LabelToggled(w.plate_map, ColWells(w.plate_map, col)))

\* the wells with data whose centre lies in the rubber band
DragWells(pm, band) ==
    {WellId(r, c) : r \in band.top..band.bottom, c \in band.left..band.right}
        \cap pm.wells_with_data

\* mousePressEvent, mouseMoveEvent past the drag threshold and
\* mouseReleaseEvent of one rubber-band drag
PlateMap_drag(w, band, ctrl) ==
    LET pre_drag_selection == w.plate_map.selected_wells
        drag_wells == DragWells(w.plate_map, band)
    IN  PlateMap_emit(w, IF ctrl THEN pre_drag_selection \cup drag_wells ELSE drag_wells)

\* the selection after Select All, Deselect All and Invert Selection
Reselected(pm, what) ==
    CASE what = "all" -> pm.wells_with_data
      [] what = "none" -> {}
      [] what = "invert" -> pm.wells_with_data \ pm.selected_wells

Keys == {"Ctrl+A", "Ctrl+D", "Escape", "Ctrl+I", "other"}
\* PlateMapWidget.keyPressEvent
PlateMap_keyPressEvent(w, key) ==
    CASE key = "Ctrl+A" -> PlateMap_emit(w, Reselected(w.plate_map, "all"))
      [] key \in {"Ctrl+D", "Escape"} -> PlateMap_emit(w, Reselected(w.plate_map, "none"))
      [] key = "Ctrl+I" -> PlateMap_emit(w, Reselected(w.plate_map, "invert"))
      [] OTHER -> w

MenuActions == {"Select All", "Deselect All", "Invert Selection", "dismissed"}
\* PlateMapWidget._show_context_menu
PlateMap_show_context_menu(w, action) ==
    CASE action = "Select All" -> PlateMap_emit(w, Reselected(w.plate_map, "all"))
      [] action = "Deselect All" -> PlateMap_emit(w, Reselected(w.plate_map, "none"))
      [] action = "Invert Selection" -> PlateMap_emit(w, Reselected(w.plate_map, "invert"))
      [] OTHER -> w

\* the user selects or deselects rows of the table
SampleTable_user_selects(w, selected) == SelectRows(w, selected)

(***************************************************************************)
(* The selection specification: files are loaded and the user works on the *)
(* plate map and on the sample table                                       *)
(***************************************************************************)
\* the files offered to the import dialog: wells A1 and B1; wells B1 and A2;
\* well A1 of two cycles with a well A2 of one reading; no wells; no header
SelectionFiles ==
    {<<Header1, RowA1a, RowB1>>,
     <<Header1, RowB1, RowA2>>,
     <<Header1, RowA1a, RowA1b, RowA2>>,
     <<Header1>>,
     <<MetaLine, RowA1a>>}

SelectionParsed == {<<f, parse_lc480_file(f)>> : f \in SelectionFiles}
LoadedFile(f) == (CHOOSE o \in SelectionParsed : o[1] = f)[2]

Bands ==
    {[top |-> t, bottom |-> b, left |-> l, right |-> r] :
        t \in 1..MaxPlateRow, b \in 1..MaxPlateRow, l \in 1..MaxPlateCol, r \in 1..MaxPlateCol}

\* the widgets as constructed
InitSelection ==
    /\ data = NoneValue
    /\ plate_map = [wells_with_data |-> {}, selected_wells |-> {}]
    /\ sample_table = [rows |-> <<>>, selected |-> {}, syncing |-> FALSE]
    /\ curve_viewer = [data |-> NoneValue, selected_wells |-> {}]
    /\ syncing = FALSE
    /\ signals = <<>>
    /\ last_op = "init"
    /\ baseline_settings = DefaultSettings
    /\ baseline_results = NoneValue
    /\ dlg = Idle
    /\ called = FALSE
    /\ ParsersIdle
    /\ EngineIdle

\* the widgets as an operation finds them
Widgets ==
    [plate_map |-> plate_map, sample_table |-> sample_table, curve_viewer |-> curve_viewer,
     syncing |-> syncing, signals |-> <<>>, raised |-> FALSE]

\* the widgets as an operation leaves them
Leaves(w, op) ==
    /\ plate_map' = w.plate_map
    /\ sample_table' = w.sample_table
    /\ curve_viewer' = w.curve_viewer
    /\ syncing' = w.syncing
    /\ signals' = w.signals
    /\ last_op' = op
    /\ UNCHANGED <<baseline_settings, baseline_results, dlg, called, input, parsed, eng_in, eng_out>>

\* _import_file with the selection part of _on_data_loaded
LoadFile ==
    \E f \in SelectionFiles :
        LET d == LoadedFile(f)
        IN  IF d.tag = "raise"
                THEN Leaves([Widgets EXCEPT !.signals = <<"import error">>], "import error")
                     /\ UNCHANGED data
            ELSE Leaves(Delivered(MainWindow_on_data_loaded(Widgets, d)), "import")
                 /\ data' = d

WellClick ==
    \E row \in 1..MaxPlateRow, col \in 1..MaxPlateCol :
        Leaves(PlateMap_well_click(Widgets, row, col), "well click") /\ UNCHANGED data

RowLabelClick ==
    \E row \in 1..MaxPlateRow :
        Leaves(PlateMap_row_label_click(Widgets, row), "row label click") /\ UNCHANGED data

ColLabelClick ==
    \E col \in 1..MaxPlateCol :
        Leaves(PlateMap_col_label_click(Widgets, col), "column label click") /\ UNCHANGED data

Drag ==
    \E band \in Bands, ctrl \in BOOLEAN :
        Leaves(PlateMap_drag(Widgets, band, ctrl), "drag") /\ UNCHANGED data

KeyPress ==
    \E key \in Keys :
        Leaves(PlateMap_keyPressEvent(Widgets, key), "key") /\ UNCHANGED data

ContextMenu ==
    \E action \in MenuActions :
        Leaves(PlateMap_show_context_menu(Widgets, action), "context menu") /\ UNCHANGED data

TableSelect ==
    \E selected \in SUBSET DOMAIN sample_table.rows :
        Leaves(SampleTable_user_selects(Widgets, selected), "table selection") /\ UNCHANGED data

NextSelection ==
    \/ LoadFile
    \/ WellClick
    \/ RowLabelClick
    \/ ColLabelClick
    \/ Drag
    \/ KeyPress
    \/ ContextMenu
    \/ TableSelect

SpecSelection == InitSelection /\ [][NextSelection]_vars

(***************************************************************************)
(* Claims about the parsers, checked under SpecParsers                     *)
(***************************************************************************)
IsDataset(v) == v.tag = "LC480Data"
NoDuplicates(seq) == \A i, j \in DOMAIN seq : seq[i] = seq[j] => i = j

\* C6: every curve of a returned dataset has exactly num_cycles readings and
\* cycles is 1..num_cycles
C6_CurveLengths ==
    IsDataset(parsed) =>
        /\ \A w \in DOMAIN parsed.fluorescence :
              \A ch \in DOMAIN parsed.fluorescence[w] :
                  Len(parsed.fluorescence[w][ch]) = parsed.num_cycles
        /\ parsed.cycles = [i \in 1..parsed.num_cycles |-> i]

\* the well ids the input gives data for: the trimmed first column of the
\* accepted rows after the header line h, the trimmed position names
TextInputWells(lines, h) ==
    {Strip(StripSplit(lines[i])[1]) :
        i \in {k \in (h + 1)..Len(lines) : Len(StripSplit(lines[k])) >= 8}}

XmlInputWells(doc) ==
    {Strip(doc.measurements[i].positionName.text) :
        i \in {k \in DOMAIN doc.measurements :
                  /\ doc.measurements[k].positionName.tag = "el"
                  /\ doc.measurements[k].positionName.text # <<>>}}

FirstHeader(lines, h) ==
    /\ h \in DOMAIN lines
    /\ StartsWithSamplePos(lines[h])
    /\ \A j \in 1..(h - 1) : ~StartsWithSamplePos(lines[j])

InputWells ==
    IF input.kind = "text"
        THEN TextInputWells(input.lines, CHOOSE h \in DOMAIN input.lines : FirstHeader(input.lines, h))
    ELSE XmlInputWells(input)

\* row letter and column number of a well id, read off the id itself
RowLetter(w) == CASE w[1] \in {"A", "a"} -> 1 [] w[1] \in {"B", "b"} -> 2
                  [] w[1] \in {"C", "c"} -> 3 [] w[1] \in {"D", "d"} -> 4
                  [] w[1] \in {"E", "e"} -> 5 [] w[1] \in {"F", "f"} -> 6
                  [] w[1] \in {"G", "g"} -> 7 [] w[1] \in {"H", "h"} -> 8
                  [] OTHER -> 9
ColumnNumber(w) == DecValue(Tail(w))

ColumnMajor(wells) ==
    \A i, j \in DOMAIN wells :
        i < j => \/ ColumnNumber(wells[i]) < ColumnNumber(wells[j])
                 \/ /\ ColumnNumber(wells[i]) = ColumnNumber(wells[j])
                    /\ RowLetter(wells[i]) <= RowLetter(wells[j])

\* C7: the wells of a returned dataset are the input's well ids, each once, in
\* ascending (column number, row letter) order; the 96 wells of a full plate
\* given row by row, from A1 or backwards from H12, come out as A1, B1, ...,
\* H1, A2, ..., H12
C7_WellsColumnMajor ==
    /\ IsDataset(parsed) =>
          /\ NoDuplicates(parsed.wells)
          /\ Range(parsed.wells) = InputWells
          /\ ColumnMajor(parsed.wells)
    /\ (parsed # NotParsed /\ input \in {PlateFile(PlateReversed), PlateFile(PlateRowMajor)}) =>
          (IsDataset(parsed) /\ parsed.wells = PlateColumnMajor)

\* a dataset of several wells whose sorted order is not the order of the input
C7_Witness ==
    /\ IsDataset(parsed)
    /\ Len(parsed.wells) >= 2
    /\ input.kind = "text"
    /\ \E i, j \in DOMAIN input.lines :
          /\ i < j
          /\ Len(StripSplit(input.lines[i])) >= 8
          /\ Strip(input.lines[i][1]) = parsed.wells[2]
          /\ Strip(input.lines[j][1]) = parsed.wells[1]

\* C8: the channels of a returned dataset are pairwise different
C8_ChannelsUnique == IsDataset(parsed) => NoDuplicates(parsed.channels)

\* C9: the text parser fails with the missing-header error exactly when no
\* line starts with SamplePos; otherwise the first such line is the header:
\* a returned dataset has that line's channels and only wells of later lines
C9_FirstHeader ==
    (input.kind = "text" /\ parsed # NotParsed) =>
        /\ (\A i \in DOMAIN input.lines : ~StartsWithSamplePos(input.lines[i]))
              <=> parsed = Raise("ValueError: could not find 'SamplePos' column header")
        /\ \A h \in DOMAIN input.lines :
              (FirstHeader(input.lines, h) /\ IsDataset(parsed)) =>
                  /\ parsed.channels = StripNonEmpty(SubSeq(StripSplit(input.lines[h]), 8,
                                                            Len(StripSplit(input.lines[h]))))
                  /\ Range(parsed.wells) = TextInputWells(input.lines, h)

\* a file with two header lines naming different channels was parsed, and one
\* without any header was refused
C9_Witness ==
    /\ input.kind = "text"
    /\ IsDataset(parsed)
    /\ \E h, k \in DOMAIN input.lines :
          /\ h < k
          /\ FirstHeader(input.lines, h)
          /\ StartsWithSamplePos(input.lines[k])
          /\ HeaderChannels(input.lines[k]) # HeaderChannels(input.lines[h])
          /\ parsed.channels # <<>>

\* the inputs of the round trip: header line h names n >= 1 channels, pairwise
\* different, in columns 7..7+n-1; every later line is a row with a well id
\* (row letter, column number), a sample name and numbers in those columns
IsWellId(tok) ==
    /\ Len(tok) >= 2
    /\ tok[1] \in Range(Letters)
    /\ AllDigits(Tail(tok))
IsNumeral(tok) == AllDigits(Strip(tok))
RoundTripInput(lines, h, n) ==
    /\ FirstHeader(lines, h)
    /\ n >= 1
    /\ Len(lines[h]) = 7 + n
    /\ \A k \in 1..n : Strip(lines[h][7 + k]) # <<>>
    /\ \A k, m \in 1..n : Strip(lines[h][7 + k]) = Strip(lines[h][7 + m]) => k = m
    /\ \A i \in (h + 1)..Len(lines) :
          /\ Len(lines[i]) >= 7 + n
          /\ IsWellId(Strip(lines[i][1]))
          /\ \A k \in 1..n : IsNumeral(lines[i][7 + k])

RECURSIVE ColumnOfWell(_, _, _, _)
\* the numbers in column col of the rows of well w from line `from` on
ColumnOfWell(lines, from, w, col) ==
    IF from > Len(lines) THEN <<>>
    ELSE IF Strip(lines[from][1]) = w
        THEN <<DecValue(Strip(lines[from][col]))>> \o ColumnOfWell(lines, from + 1, w, col)
    ELSE ColumnOfWell(lines, from + 1, w, col)

\* C10: on a round-trip input the parser returns a dataset whose channels are
\* the header's names in column order and whose curve of (well, k-th channel)
\* is column 7+k of that well's rows in file order
C10_RoundTrip ==
    (input.kind = "text" /\ parsed # NotParsed) =>
        \A h \in DOMAIN input.lines : \A n \in 1..2 :
            RoundTripInput(input.lines, h, n) =>
                /\ IsDataset(parsed)
                /\ parsed.channels = [k \in 1..n |-> Strip(input.lines[h][7 + k])]
                /\ Range(parsed.wells) = {Strip(input.lines[i][1]) : i \in (h + 1)..Len(input.lines)}
                /\ \A w \in Range(parsed.wells) : \A k \in 1..n :
                      parsed.fluorescence[w][parsed.channels[k]]
                          = ColumnOfWell(input.lines, h + 1, w, 7 + k)

\* a round-trip input with two wells and more than one cycle was parsed
C10_Witness ==
    /\ input.kind = "text"
    /\ IsDataset(parsed)
    /\ \E h \in DOMAIN input.lines : \E n \in 1..2 : RoundTripInput(input.lines, h, n)
    /\ Len(parsed.wells) >= 2
    /\ parsed.num_cycles >= 2

(***************************************************************************)
(* Claims about the main window, checked under Spec                        *)
(***************************************************************************)
\* C1: after a successful import or an accepted settings dialog with a dataset
\* loaded, the stored results are compute_baseline(dataset, settings) for the
\* stored dataset and settings
C1_ResultsCurrent ==
    (last_op \in {"import", "accept"} /\ data.tag # "None") =>
        baseline_results = compute_baseline(data, baseline_settings)

\* start_cycle < end_cycle <= num_cycles, both thresholds positive
ValidSettings(st, d) ==
    /\ st.start_cycle < st.end_cycle
    /\ st.end_cycle <= d.num_cycles
    /\ st.ct_threshold.num > 0
    /\ st.call_threshold.num > 0

\* C2: every call of compute_baseline is made with settings valid for the
\* dataset of the call
C2_ValidSettingsAtEngine == called => ValidSettings(baseline_settings, data)

\* C3: an import whose parse fails leaves the stored dataset and the stored
\* results as they were
C3_FailedImportKeepsState ==
    [][last_op' = "import error" => (data' = data /\ baseline_results' = baseline_results)]_vars

\* a failed import with a dataset and results already stored
C3_Witness ==
    /\ last_op = "import error"
    /\ data.tag = "LC480Data"
    /\ baseline_results.tag = "BaselineResults"

(***************************************************************************)
(* Claims about the engine, checked under SpecEngine                       *)
(***************************************************************************)
\* the map has exactly the wells of d as keys and, under each, its channels
KeyedByPairs(m, d) ==
    /\ DOMAIN m = Range(d.wells)
    /\ \A w \in DOMAIN m : DOMAIN m[w] = Range(d.channels)

\* C5: a result set compute_baseline returns has, in each of its four maps,
\* an entry for every well and under it for every channel of the dataset, and
\* nothing else; for no dataset or no wells it returns the empty result set
C5_OneEntryPerPair ==
    eng_out # NotComputed =>
        /\ (eng_in.data.tag = "None" \/ eng_in.data.wells = <<>>) => eng_out = EmptyResults
        /\ (eng_out.tag = "BaselineResults" /\ eng_in.data.tag # "None") =>
              /\ KeyedByPairs(eng_out.subtracted, eng_in.data)
              /\ KeyedByPairs(eng_out.divided, eng_in.data)
              /\ KeyedByPairs(eng_out.ct, eng_in.data)
              /\ KeyedByPairs(eng_out.call, eng_in.data)

\* a result set for two channels, one with a curve and one without
C5_Witness ==
    /\ eng_out.tag = "BaselineResults"
    /\ eng_in.data.tag = "LC480Data"
    /\ \E w \in Range(eng_in.data.wells) :
          /\ Ch1 \in DOMAIN eng_in.data.fluorescence[w]
          /\ Ch2 \in Range(eng_in.data.channels) \ DOMAIN eng_in.data.fluorescence[w]
          /\ eng_out.call[w][Ch2] = "N/A"
          /\ eng_out.call[w][Ch1] # "N/A"

(***************************************************************************)
(* Further claims about the text parser, checked under SpecParsers         *)
(***************************************************************************)
\* a token float() accepts, on the modelled alphabet
IsNumber(tok) ==
    LET t == Strip(tok)
    IN  AllDigits(t) \/ (t # <<>> /\ t[1] = "-" /\ AllDigits(Tail(t)))

\* line i is a data row the parser accepts: after the header, 8 fields or more
AcceptedRow(lines, h, i) == i > h /\ Len(StripSplit(lines[i])) >= 8

\* field c of accepted row i is the reading of one of the n channels and is
\* not a number
BadReading(lines, h, n, i, c) ==
    /\ AcceptedRow(lines, h, i)
    /\ c \in 8..(7 + n)
    /\ c <= Len(StripSplit(lines[i]))
    /\ ~IsNumber(StripSplit(lines[i])[c])

\* the file with every such reading replaced by the numeral 0
ZeroedFile(lines) ==
    IF \A i \in DOMAIN lines : ~StartsWithSamplePos(lines[i]) THEN lines
    ELSE LET h == CHOOSE k \in DOMAIN lines : FirstHeader(lines, k)
             n == Len(StripNonEmpty(SubSeq(StripSplit(lines[h]), 8, Len(StripSplit(lines[h])))))
         IN  [i \in DOMAIN lines |->
                 IF AcceptedRow(lines, h, i)
                     THEN [c \in DOMAIN StripSplit(lines[i]) |->
                              IF BadReading(lines, h, n, i, c) THEN <<"0">>
                              ELSE StripSplit(lines[i])[c]]
                 ELSE lines[i]]

\* C11: a reading of an accepted row that is not a number is recorded as 0.0
\* and nothing else changes: the parser returns for the file what it returns
\* for the file with each such reading replaced by 0, and fails only if it
\* fails on that file too
C11_SilentZero ==
    (input.kind = "text" /\ parsed # NotParsed) =>
        parsed = parse_lc480_file(ZeroedFile(input.lines))

\* a dataset parsed from a file with a reading that is not a number, beside a
\* reading that is a number other than 0
C11_Witness ==
    /\ input.kind = "text"
    /\ IsDataset(parsed)
    /\ ZeroedFile(input.lines) # [i \in DOMAIN input.lines |-> StripSplit(input.lines[i])]
    /\ ZeroedFile(input.lines) # input.lines
    /\ \E w \in DOMAIN parsed.fluorescence : \E ch \in DOMAIN parsed.fluorescence[w] :
          /\ \E c \in DOMAIN parsed.fluorescence[w][ch] : parsed.fluorescence[w][ch][c] = 0
          /\ \E c \in DOMAIN parsed.fluorescence[w][ch] : parsed.fluorescence[w][ch][c] # 0

(***************************************************************************)
(* Further claims about the engine, checked under SpecEngine               *)
(***************************************************************************)
Computed == eng_out # NotComputed /\ eng_in.data.tag = "LC480Data"
Returned == Computed /\ eng_out.tag = "BaselineResults"
PairsOf(d) == Range(d.wells) \X Range(d.channels)
HasCurve(d, p) == p[1] \in DOMAIN d.fluorescence /\ p[2] \in DOMAIN d.fluorescence[p[1]]

\* the four entries of pair p in result set r
EntriesOf(r, p) ==
    [subtracted |-> r.subtracted[p[1]][p[2]], divided |-> r.divided[p[1]][p[2]],
     ct |-> r.ct[p[1]][p[2]], call |-> r.call[p[1]][p[2]]]

\* d2 is d with curves added for pairs that have none in d
Completes(d2, d) ==
    /\ d2.tag = "LC480Data"
    /\ d2.wells = d.wells /\ d2.channels = d.channels /\ d2.cycles = d.cycles
    /\ \A p \in PairsOf(d) :
          HasCurve(d, p) => (HasCurve(d2, p) /\ d2.fluorescence[p[1]][p[2]] = d.fluorescence[p[1]][p[2]])

\* C12: a pair without a curve gets a subtracted curve of num_cycles zeros, no
\* normalized curve, no Ct and the call "N/A"; the missing curve raises
\* nothing and leaves the other pairs' results as they are when the pair has
\* a curve
C12_MissingCurve ==
    Computed =>
        /\ Returned =>
              \A p \in PairsOf(eng_in.data) :
                  ~HasCurve(eng_in.data, p) =>
                      EntriesOf(eng_out, p) =
                          [subtracted |-> [i \in 1..eng_in.data.num_cycles |-> RInt(0)],
                           divided |-> NoneValue, ct |-> NoneValue, call |-> "N/A"]
        /\ (\A p \in PairsOf(eng_in.data) : ~HasCurve(eng_in.data, p)) => Returned
        /\ \A d2 \in EngineDatasets :
              LET r2 == compute_baseline(d2, eng_in.settings)
              IN  (Completes(d2, eng_in.data) /\ r2.tag = "BaselineResults") =>
                      /\ Returned
                      /\ \A p \in PairsOf(eng_in.data) :
                            HasCurve(eng_in.data, p) => EntriesOf(eng_out, p) = EntriesOf(r2, p)

\* a result set with a pair that has no curve beside a pair with a normalized
\* curve
C12_Witness ==
    /\ Returned
    /\ \E p, q \in PairsOf(eng_in.data) :
          /\ ~HasCurve(eng_in.data, p)
          /\ HasCurve(eng_in.data, q)
          /\ eng_out.divided[q[1]][q[2]] # NoneValue
          /\ eng_out.subtracted[p[1]][p[2]] # <<>>

\* the curve of pair p has one reading per cycle
FullLength(d, p) == Len(d.fluorescence[p[1]][p[2]]) = Len(d.cycles)

\* the line fitted to the curve of pair p over the baseline window
FitOf(d, st, p) ==
    Polyfit(Slice(d.cycles, st.start_cycle - 1, st.end_cycle),
            Slice(d.fluorescence[p[1]][p[2]], st.start_cycle - 1, st.end_cycle))

\* slope * cycle + intercept of that line at the i-th cycle
BaselineAt(d, st, p, i) ==
    RAdd(RMul(FitOf(d, st, p).val[1], RInt(d.cycles[i])), FitOf(d, st, p).val[2])

\* pair p has a full-length curve whose fitted line is 0 at some cycle
ZeroAt(d, st, p) ==
    /\ HasCurve(d, p)
    /\ FullLength(d, p)
    /\ FitOf(d, st, p).tag = "ok"
    /\ \E i \in DOMAIN d.cycles : RIsZero(BaselineAt(d, st, p, i))

\* C13: when the fitted baseline of a pair is exactly 0 at some cycle, the
\* pair has no normalized curve, no Ct and the call "N/A", its subtracted
\* curve is fluorescence minus baseline, and nothing is raised for it
C13_ZeroBaseline ==
    Computed =>
        \A p \in PairsOf(eng_in.data) :
            ZeroAt(eng_in.data, eng_in.settings, p) =>
                /\ (\A q \in PairsOf(eng_in.data) :
                       HasCurve(eng_in.data, q) => FullLength(eng_in.data, q)) => Returned
                /\ Returned =>
                      EntriesOf(eng_out, p) =
                          [subtracted |->
                               [i \in DOMAIN eng_in.data.cycles |->
                                   RSub(RInt(eng_in.data.fluorescence[p[1]][p[2]][i]),
                                        BaselineAt(eng_in.data, eng_in.settings, p, i))],
                           divided |-> NoneValue, ct |-> NoneValue, call |-> "N/A"]

\* a result set for a pair whose baseline is 0 at some cycle while its
\* fluorescence is not 0 throughout
C13_Witness ==
    /\ Returned
    /\ \E p \in PairsOf(eng_in.data) :
          /\ ZeroAt(eng_in.data, eng_in.settings, p)
          /\ \E i \in DOMAIN eng_out.subtracted[p[1]][p[2]] :
                ~RIsZero(eng_out.subtracted[p[1]][p[2]][i])

(***************************************************************************)
(* Claims about _calc_ct, checked under SpecCt                             *)
(***************************************************************************)
\* position k (1-based) is the first whose reading is >= the threshold
FirstCrossing(c, t, k) ==
    /\ k \in DOMAIN c
    /\ c[k].num * t.den >= t.num * c[k].den
    /\ \A j \in 1..(k - 1) : c[j].num * t.den < t.num * c[j].den

\* C14: with i the first 0-based index whose reading is >= ct_threshold, Ct is
\* 1.0 for i = 0 and i + (threshold - c[i-1]) / (c[i] - c[i-1]) otherwise; Ct
\* is absent exactly when there is no such index; the curve 0.5, 0.8, 1.2,
\* 2.0, 3.0 with threshold 1.5 gives 3.375
C14_CtInterpolation ==
    eng_out # NotComputed =>
        LET c == eng_in.divided
            t == eng_in.threshold
        IN  /\ eng_out = NoneValue <=> ~ \E k \in DOMAIN c : FirstCrossing(c, t, k)
            /\ \A k \in DOMAIN c :
                  FirstCrossing(c, t, k) =>
                      IF k = 1 THEN eng_out = Ok(RInt(1))
                      ELSE eng_out =
                              Ok(RAdd(RInt(k - 1),
                                      RDiv(RSub(t, c[k - 1]), RSub(c[k], c[k - 1]))))
            /\ (c = ExampleCurve /\ t = Rat(3, 2)) => eng_out = Ok(Rat(27, 8))

\* the Ct of the example curve at threshold 1.5 was computed
C14_Witness ==
    /\ eng_out # NotComputed
    /\ eng_in.divided = ExampleCurve
    /\ eng_in.threshold = Rat(3, 2)
    /\ eng_out.tag = "ok"

\* the last element of the normalized curve of pair p in result set r
Endpoint(r, p) ==
    r.divided[p[1]][p[2]].val[Len(r.divided[p[1]][p[2]].val)]

\* C15: where a normalized curve is present the call is Positive if its last
\* element is >= call_threshold, equality included, and Negative otherwise,
\* whatever Ct and ct_threshold are
C15_CallFromEndpoint ==
    Returned =>
        \A p \in PairsOf(eng_in.data) :
            eng_out.divided[p[1]][p[2]] # NoneValue =>
                LET e == Endpoint(eng_out, p)
                    t == eng_in.settings.call_threshold
                IN  eng_out.call[p[1]][p[2]] =
                        IF e.num * t.den >= t.num * e.den THEN "Positive" ELSE "Negative"

\* a Positive call for an endpoint equal to call_threshold, with no Ct
C15_Witness ==
    /\ Returned
    /\ \E p \in PairsOf(eng_in.data) :
          /\ eng_out.divided[p[1]][p[2]] # NoneValue
          /\ Endpoint(eng_out, p) = eng_in.settings.call_threshold
          /\ eng_out.call[p[1]][p[2]] = "Positive"
          /\ eng_out.ct[p[1]][p[2]] = NoneValue

\* C16: in a returned result set the call of a pair is "N/A" exactly when its
\* normalized curve is absent, otherwise Positive or Negative, and a pair
\* without a normalized curve has no Ct
C16_AbsentTogether ==
    Returned =>
        \A p \in PairsOf(eng_in.data) :
            /\ eng_out.call[p[1]][p[2]] = "N/A" <=> eng_out.divided[p[1]][p[2]] = NoneValue
            /\ eng_out.call[p[1]][p[2]] \in {"Positive", "Negative", "N/A"}
            /\ eng_out.divided[p[1]][p[2]] = NoneValue => eng_out.ct[p[1]][p[2]] = NoneValue

\* a result set holding a pair without a curve, a pair with a zero baseline
\* and a pair with a Ct
C16_Witness ==
    /\ Returned
    /\ \E p \in PairsOf(eng_in.data) :
          eng_out.ct[p[1]][p[2]] # NoneValue /\ eng_out.call[p[1]][p[2]] # "N/A"
    /\ \E p \in PairsOf(eng_in.data) :
          eng_out.divided[p[1]][p[2]] = NoneValue
              /\ (~HasCurve(eng_in.data, p) \/ ZeroAt(eng_in.data, eng_in.settings, p))

\* pair p has a full-length curve that is k at every cycle
ConstantCurve(d, p, k) ==
    /\ HasCurve(d, p)
    /\ FullLength(d, p)
    /\ \A i \in DOMAIN d.fluorescence[p[1]][p[2]] : d.fluorescence[p[1]][p[2]][i] = k

Reorderings(seq) ==
    {[k \in DOMAIN seq |-> seq[f[k]]] :
        f \in {g \in [DOMAIN seq -> DOMAIN seq] : \A i, j \in DOMAIN seq : g[i] = g[j] => i = j}}

\* d2 has the wells, channels and cycles of d and a curve of the same length
\* wherever d has one: only readings differ
SameShape(d2, d) ==
    /\ d2.tag = "LC480Data"
    /\ d2.wells = d.wells /\ d2.channels = d.channels /\ d2.cycles = d.cycles
    /\ \A p \in PairsOf(d) :
          /\ HasCurve(d2, p) <=> HasCurve(d, p)
          /\ HasCurve(d, p) =>
                Len(d2.fluorescence[p[1]][p[2]]) = Len(d.fluorescence[p[1]][p[2]])

SameCurve(d2, d, p) ==
    IF HasCurve(d, p) THEN d2.fluorescence[p[1]][p[2]] = d.fluorescence[p[1]][p[2]]
    ELSE ~HasCurve(d2, p)

\* C19: visiting the pairs in any order gives the result set of the
\* sequential loops (or raises where they raise), and the entries of a pair
\* are the same in every dataset that differs only in the readings of other
\* pairs' curves
C19_PairsIndependent ==
    Computed =>
        /\ \A order \in Reorderings(PairsInOrder(eng_in.data)) :
              LET r == ComputeInOrder(eng_in.data, eng_in.settings, order)
              IN  IF Returned THEN r = eng_out ELSE r.tag = "raise"
        /\ \A d2 \in EngineDatasets :
              SameShape(d2, eng_in.data) =>
                  LET r2 == compute_baseline(d2, eng_in.settings)
                  IN  /\ Returned <=> r2.tag = "BaselineResults"
                      /\ Returned =>
                            \A p \in PairsOf(eng_in.data) :
                                SameCurve(d2, eng_in.data, p) =>
                                    EntriesOf(r2, p) = EntriesOf(eng_out, p)

\* a result set for two pairs with different curves, each with a normalized
\* curve
C19_Witness ==
    /\ Returned
    /\ \E p, q \in PairsOf(eng_in.data) :
          /\ p # q
          /\ HasCurve(eng_in.data, p) /\ HasCurve(eng_in.data, q)
          /\ eng_in.data.fluorescence[p[1]][p[2]] # eng_in.data.fluorescence[q[1]][q[2]]
          /\ eng_out.divided[p[1]][p[2]] # NoneValue
          /\ eng_out.divided[q[1]][q[2]] # NoneValue
          /\ EntriesOf(eng_out, p) # EntriesOf(eng_out, q)

(***************************************************************************)
(* Claims about the metadata of the text parser, checked under SpecParsers *)
(***************************************************************************)
\* line i is the first line before the header h that matches the pattern
FirstMetaMatch(lines, h, i) ==
    /\ i \in 1..(h - 1)
    /\ MetaOf(lines[i]).tag = "match"
    /\ \A j \in 1..(i - 1) : MetaOf(lines[j]).tag # "match"

\* C20: experiment_name and software_version of a returned dataset are those
\* of the first line before the header that matches 'Experiment - <name> (Run
\* on LCS480 <version>)', and both are empty when no line matches
C20_FirstMatchWins ==
    (input.kind = "text" /\ IsDataset(parsed)) =>
        \A h \in DOMAIN input.lines :
            FirstHeader(input.lines, h) =>
                /\ \A i \in 1..(h - 1) :
                      FirstMetaMatch(input.lines, h, i) =>
                          /\ parsed.experiment_name = MetaOf(input.lines[i]).name
                          /\ parsed.software_version = MetaOf(input.lines[i]).version
                /\ (\A i \in 1..(h - 1) : MetaOf(input.lines[i]).tag # "match") =>
                      /\ parsed.experiment_name = <<>>
                      /\ parsed.software_version = <<>>

(***************************************************************************)
(* Skipped lines of the text parser, checked under SpecParsers             *)
(***************************************************************************)
\* seq without its i-th element
RemoveAt(seq, i) == SubSeq(seq, 1, i - 1) \o SubSeq(seq, i + 1, Len(seq))

\* line i comes after the header h and is blank or has fewer than 8
\* tab-separated columns
SkippedLine(lines, h, i) ==
    /\ i \in (h + 1)..Len(lines)
    /\ (IsBlankLine(lines[i]) \/ Len(lines[i]) < 8)

\* C21: a blank line or a data line with fewer than 8 tab-separated columns
\* is skipped: the parser returns (or raises) for the file what it does for
\* the file with that line removed, so the line adds no well, no sample name
\* and no reading and causes no failure
C21_ShortLineSkipped ==
    (input.kind = "text" /\ parsed # NotParsed) =>
        \A h \in DOMAIN input.lines :
            FirstHeader(input.lines, h) =>
                \A i \in DOMAIN input.lines :
                    SkippedLine(input.lines, h, i) =>
                        parsed = parse_lc480_file(RemoveAt(input.lines, i))

\* a dataset with wells parsed from a file that has, after the header, a
\* short line naming a well of its own, and a blank line
C21_Witness ==
    /\ input.kind = "text"
    /\ IsDataset(parsed)
    /\ parsed.wells # <<>>
    /\ \E h, i, j \in DOMAIN input.lines :
          /\ FirstHeader(input.lines, h)
          /\ SkippedLine(input.lines, h, i)
          /\ ~IsBlankLine(input.lines[i])
          /\ Strip(input.lines[i][1]) \notin Range(parsed.wells)
          /\ SkippedLine(input.lines, h, j)
          /\ IsBlankLine(input.lines[j])

(***************************************************************************)
(* The baseline window, checked under SpecEngine                           *)
(***************************************************************************)
RECURSIVE RSumOver(_, _, _)
\* the sum of the rationals f[i], i in lo..hi
RSumOver(f, lo, hi) == IF lo > hi THEN RInt(0) ELSE RAdd(f[hi], RSumOver(f, lo, hi - 1))

\* the baseline read off a result: fluorescence minus subtracted, per cycle
BaselineOf(d, r, p) ==
    [i \in DOMAIN r.subtracted[p[1]][p[2]] |->
        RSub(RInt(d.fluorescence[p[1]][p[2]][i]), r.subtracted[p[1]][p[2]][i])]

\* b is a straight line over the cycles 1..n: equal steps from cycle to cycle
StraightLine(b, n) ==
    /\ DOMAIN b = 1..n
    /\ \A i \in 2..(n - 1) : RSub(b[i + 1], b[i]) = RSub(b[i], b[i - 1])

\* the residuals res over the cycles lo..hi are those of a least-squares line
\* fitted to exactly those cycles: they sum to 0, and so do their products
\* with the cycle number
LeastSquaresOver(res, lo, hi) ==
    /\ RIsZero(RSumOver(res, lo, hi))
    /\ RIsZero(RSumOver([i \in DOMAIN res |-> RMul(RInt(i), res[i])], lo, hi))

\* C22: with valid settings and a curve of num_cycles readings, subtracted
\* has an entry for every cycle 1..num_cycles, fluorescence minus subtracted
\* is one straight line over all the cycles, and that line is the
\* least-squares fit to the end_cycle - start_cycle + 1 points at the cycles
\* start_cycle..end_cycle; this holds whether or not the pair has a
\* normalized curve, and nothing is raised when every curve is full length
C22_BaselineWindow ==
    (Computed /\ ValidSettings(eng_in.settings, eng_in.data)) =>
        /\ (\A q \in PairsOf(eng_in.data) :
               HasCurve(eng_in.data, q) => FullLength(eng_in.data, q)) => Returned
        /\ Returned =>
              \A p \in PairsOf(eng_in.data) :
                  (HasCurve(eng_in.data, p) /\ FullLength(eng_in.data, p)) =>
                      LET sub == eng_out.subtracted[p[1]][p[2]]
                          st == eng_in.settings
                      IN  /\ DOMAIN sub = 1..eng_in.data.num_cycles
                          /\ StraightLine(BaselineOf(eng_in.data, eng_out, p),
                                          eng_in.data.num_cycles)
                          /\ Cardinality(st.start_cycle..st.end_cycle)
                                 = st.end_cycle - st.start_cycle + 1
                          /\ LeastSquaresOver(sub, st.start_cycle, st.end_cycle)

\* a result set under valid settings whose window ends before the last cycle
\* or starts after the first, with a curve that leaves the fitted line outside
\* the window, for a pair without a normalized curve and for a pair with one
C22_Witness ==
    /\ Returned
    /\ ValidSettings(eng_in.settings, eng_in.data)
    /\ eng_in.settings.end_cycle - eng_in.settings.start_cycle + 1 < eng_in.data.num_cycles
    /\ \E p, q \in PairsOf(eng_in.data) :
          /\ HasCurve(eng_in.data, p) /\ FullLength(eng_in.data, p)
          /\ HasCurve(eng_in.data, q) /\ FullLength(eng_in.data, q)
          /\ eng_out.divided[p[1]][p[2]] = NoneValue
          /\ eng_out.divided[q[1]][q[2]] # NoneValue
          /\ \E i \in DOMAIN eng_out.subtracted[p[1]][p[2]] :
                ~RIsZero(eng_out.subtracted[p[1]][p[2]][i])
          /\ \E i \in DOMAIN eng_out.subtracted[q[1]][q[2]] :
                ~RIsZero(eng_out.subtracted[q[1]][q[2]][i])

(***************************************************************************)
(* Further claims about the XML parser, checked under SpecParsers          *)
(***************************************************************************)
\* the pcrTarget elements that carry both a filterId and a name
FullTargets(ts) == {i \in DOMAIN ts : ts[i].filterId.tag = "el" /\ ts[i].name.tag = "el"}

\* the numeric filter id of target i
FilterIdOf(ts, i) == ParseNumber(ts[i].filterId.text).val

FilterIds(ts) == {FilterIdOf(ts, i) : i \in FullTargets(ts)}

\* the dye name the map holds for filter id f: that of the last target with f
DyeOf(ts, f) ==
    Strip(ts[CHOOSE i \in FullTargets(ts) :
                /\ FilterIdOf(ts, i) = f
                /\ \A j \in FullTargets(ts) : FilterIdOf(ts, j) = f => j <= i].name.text)

\* the k-th smallest element of a set of integers
KthSmallest(S, k) == CHOOSE x \in S : Cardinality({y \in S : y < x}) = k - 1

\* no two targets give one filter id different dye names
OneDyePerFilter(ts) ==
    \A i, j \in FullTargets(ts) :
        FilterIdOf(ts, i) = FilterIdOf(ts, j) => Strip(ts[i].name.text) = Strip(ts[j].name.text)

\* the channels of every document that lists the same targets in another
\* order, where the parser returns a dataset, are those of the parsed one
SameChannelsInAnyOrder ==
    \A ts \in Reorderings(input.targets) :
        LET r == parse_lcpro_file([input EXCEPT !.targets = ts])
        IN  IsDataset(r) /\ r.channels = parsed.channels

\* C23 as stated: the channel order does not depend on the order of the
\* target definitions in the document
C23_OrderIndependent ==
    (input.kind = "xml" /\ IsDataset(parsed)) => SameChannelsInAnyOrder

\* C23: the channels of a returned dataset are the dye names of the distinct
\* filter ids in ascending numeric order, a filter id named by several
\* targets taking the name of the last of them; the order of the targets in
\* the document does not matter when no filter id is given two different names
C23_ChannelsByFilterId ==
    (input.kind = "xml" /\ IsDataset(parsed)) =>
        /\ Len(parsed.channels) = Cardinality(FilterIds(input.targets))
        /\ \A k \in DOMAIN parsed.channels :
              parsed.channels[k] = DyeOf(input.targets, KthSmallest(FilterIds(input.targets), k))
        /\ OneDyePerFilter(input.targets) => SameChannelsInAnyOrder

\* a dataset parsed from a document that lists filter id 10 before filter id
\* 2: the channel of 2 comes first
C23_Witness ==
    /\ input.kind = "xml"
    /\ IsDataset(parsed)
    /\ Len(input.targets) = 2
    /\ FullTargets(input.targets) = {1, 2}
    /\ FilterIdOf(input.targets, 1) = 10
    /\ FilterIdOf(input.targets, 2) = 2
    /\ parsed.channels = <<Strip(input.targets[2].name.text), Strip(input.targets[1].name.text)>>
    /\ parsed.channels[1] # parsed.channels[2]

\* the document without segment si of measurement mi
RemoveSegment(doc, mi, si) ==
    [doc EXCEPT !.measurements[mi].segments = RemoveAt(@, si)]

\* every target with both elements has a numeric filter id and a name text
TargetsWellFormed(ts) ==
    \A i \in FullTargets(ts) :
        /\ ts[i].name.text # <<>>
        /\ IsNumber(ts[i].filterId.text)

\* the segment's id, trimmed, is the decimal numeral of f * 1000 + 32
SegmentOfFilter(sg, f) ==
    /\ sg.segmentId.tag = "el"
    /\ Strip(sg.segmentId.text) = StrOfInt(f * 1000 + 32)

\* the measured values of the acquisitions that carry both fields
CompleteValues(sg) ==
    {ParseNumber(sg.acquisitions[a].measuredValue.text).val :
        a \in {b \in DOMAIN sg.acquisitions :
                  /\ sg.acquisitions[b].cycle.tag = "el"
                  /\ sg.acquisitions[b].measuredValue.tag = "el"}}

\* measurement mi names a well and no later measurement names the same well
LastOfItsWell(ms, mi) ==
    /\ ms[mi].positionName.tag = "el"
    /\ ms[mi].positionName.text # <<>>
    /\ \A mj \in (mi + 1)..Len(ms) :
          (ms[mj].positionName.tag = "el" /\ ms[mj].positionName.text # <<>>)
              => Strip(ms[mj].positionName.text) # Strip(ms[mi].positionName.text)

IsComplete(a) == a.cycle.tag = "el" /\ a.measuredValue.tag = "el"

\* the (cycle, value) pairs of the complete acquisitions, in document order
KeptPoints(acqs) ==
    LET kept == SelectSeq(acqs, IsComplete)
    IN  [i \in DOMAIN kept |->
            <<ParseNumber(kept[i].cycle.text).val, ParseNumber(kept[i].measuredValue.text).val>>]

RECURSIVE MatchedPoints(_, _)
\* the kept points of the segments of filter id f, in document order
MatchedPoints(segs, f) ==
    IF segs = <<>> THEN <<>>
    ELSE (IF SegmentOfFilter(Head(segs), f) THEN KeptPoints(Head(segs).acquisitions) ELSE <<>>)
             \o MatchedPoints(Tail(segs), f)

\* the position of point i when the points are put in ascending cycle order,
\* points of one cycle staying in document order
CycleRank(points, i) ==
    Cardinality({j \in DOMAIN points :
                    \/ points[j][1] < points[i][1]
                    \/ (points[j][1] = points[i][1] /\ j < i)}) + 1

\* the values of the points in that order
InCycleOrder(points) ==
    [k \in DOMAIN points |-> points[CHOOSE i \in DOMAIN points : CycleRank(points, i) = k][2]]

\* the datasets of the documents that list the acquisitions of one segment in
\* another order have the curves of the parsed one
SameCurvesInAnyOrder(mi, si) ==
    \A acqs \in Reorderings(input.measurements[mi].segments[si].acquisitions) :
        LET r == parse_lcpro_file(
                     [input EXCEPT !.measurements[mi].segments[si].acquisitions = acqs])
        IN  IsDataset(r) /\ r.fluorescence = parsed.fluorescence

\* the complete acquisitions of the segment have pairwise different cycles
DistinctCycles(acqs) ==
    \A i, j \in DOMAIN KeptPoints(acqs) :
        KeptPoints(acqs)[i][1] = KeptPoints(acqs)[j][1] => i = j

\* C25 as stated: the document order of the acquisitions of a segment does
\* not matter for the curves
C25_AcquisitionOrderFree ==
    (input.kind = "xml" /\ IsDataset(parsed)) =>
        \A mi \in DOMAIN input.measurements :
            \A si \in DOMAIN input.measurements[mi].segments :
                SameCurvesInAnyOrder(mi, si)

\* C25: the curve of a (well, channel) is the measured values of the complete
\* acquisitions of the matched segments in ascending cycle order, equal cycles
\* in document order: an acquisition missing a field adds nothing, the length
\* is the number of kept acquisitions whatever their cycle numbers, and the
\* document order of a segment's acquisitions does not matter when their
\* cycle numbers are pairwise different
C25_CurveByCycle ==
    (input.kind = "xml" /\ IsDataset(parsed) /\ NoDuplicates(parsed.channels)) =>
        \A mi \in DOMAIN input.measurements :
            LastOfItsWell(input.measurements, mi) =>
                LET m == input.measurements[mi]
                    well == Strip(m.positionName.text)
                IN  /\ \A f \in FilterIds(input.targets) :
                          LET points == MatchedPoints(m.segments, f)
                              curve == parsed.fluorescence[well][DyeOf(input.targets, f)]
                          IN  /\ Len(curve) = Len(points)
                              /\ curve = InCycleOrder(points)
                    /\ \A si \in DOMAIN m.segments :
                          (\/ \A f \in FilterIds(input.targets) :
                                  ~SegmentOfFilter(m.segments[si], f)
                           \/ DistinctCycles(m.segments[si].acquisitions))
                              => SameCurvesInAnyOrder(mi, si)

\* a dataset with a curve read from acquisitions listed in descending cycle
\* order, a curve read from cycles 1 and 4, and a curve of one value read from
\* two acquisitions of which one has no cycle
C25_Witness ==
    /\ input.kind = "xml"
    /\ IsDataset(parsed)
    /\ parsed.channels = <<Ch1, Ch2>>
    /\ B1 \in DOMAIN parsed.fluorescence
    /\ A1 \in DOMAIN parsed.fluorescence
    /\ parsed.fluorescence[B1][Ch1] = <<5, 6>>
    /\ parsed.fluorescence[B1][Ch2] = <<3, 7>>
    /\ parsed.fluorescence[A1][Ch1] = <<9>>
    /\ \E mi \in DOMAIN input.measurements :
          /\ input.measurements[mi].segments[1].acquisitions = AcqsReversed
          /\ input.measurements[mi].segments[2].acquisitions = AcqsGap

(***************************************************************************)
(* The baseline settings dialog, checked under Spec                        *)
(***************************************************************************)
\* the num_cycles the dialog is constructed with
DialogCycles == IF data.tag # "None" THEN data.num_cycles ELSE DefaultNumCycles

\* 1 <= start < end <= n
WindowWithin(start, end, n) == 1 <= start /\ start < end /\ end <= n

\* C26: for num_cycles >= 2, whenever the dialog is open, as constructed or
\* after any edits of the start and end spin boxes, its spin values satisfy
\* 1 <= start < end <= num_cycles, and so do the settings right after the
\* dialog is accepted and apply_to has written them back
C26_DialogWindow ==
    DialogCycles >= 2 =>
        /\ dlg.tag = "open" =>
              WindowWithin(dlg.start_spin.value, dlg.end_spin.value, DialogCycles)
        /\ last_op = "accept" =>
              WindowWithin(baseline_settings.start_cycle, baseline_settings.end_cycle,
                           DialogCycles)

\* settings accepted for a dataset of four cycles after the spin boxes were
\* edited away from the values the dialog opened with
C26_Witness ==
    /\ last_op = "accept"
    /\ data.tag = "LC480Data"
    /\ data.num_cycles = FileRows
    /\ baseline_settings.start_cycle = 2
    /\ baseline_settings.end_cycle = 3

(***************************************************************************)
(* Claims about _calc_ct in rounded arithmetic, checked under SpecFloat    *)
(***************************************************************************)
RLess(a, b) == a.num * b.den < b.num * a.den
RLeq(a, b) == a.num * b.den <= b.num * a.den

\* C27 as stated: when the first crossing is at 0-based index i > 0, the Ct
\* returned is strictly above i
C27_CtStrictlyAbove ==
    (eng_out # NotComputed /\ eng_out.tag = "ok") =>
        \A k \in DOMAIN eng_in.divided :
            (FirstCrossing(eng_in.divided, eng_in.threshold, k) /\ k > 1) =>
                RLess(RInt(k - 1), eng_out.val)

\* C27: a Ct returned for a curve of n values satisfies 1 <= Ct <= n; when
\* the first crossing is at 0-based index i > 0, the denominator
\* normalized[i] - normalized[i-1] is strictly positive and i <= Ct <= i + 1,
\* with i < Ct in exact arithmetic
C27_CtBracketed ==
    (eng_out # NotComputed /\ eng_out.tag = "ok") =>
        LET c == eng_in.divided
            t == eng_in.threshold
        IN  /\ RLeq(RInt(1), eng_out.val)
            /\ RLeq(eng_out.val, RInt(Len(c)))
            /\ \A k \in DOMAIN c :
                  (FirstCrossing(c, t, k) /\ k > 1) =>
                      /\ RLess(RInt(0), FSub(c[k], c[k - 1]))
                      /\ RLess(RInt(0), RSub(c[k], c[k - 1]))
                      /\ RLeq(RInt(k - 1), eng_out.val)
                      /\ RLeq(eng_out.val, RInt(k))
                      /\ RLess(RInt(k - 1), calc_ct(c, t).val)
                      /\ RLeq(calc_ct(c, t).val, RInt(k))

\* a Ct strictly between the bracketing cycles 2 and 3, rounded from an exact
\* value that is not representable
C27_Witness ==
    /\ eng_out # NotComputed
    /\ eng_out.tag = "ok"
    /\ FirstCrossing(eng_in.divided, eng_in.threshold, 3)
    /\ RLess(RInt(2), eng_out.val)
    /\ RLess(eng_out.val, RInt(3))
    /\ eng_out # calc_ct(eng_in.divided, eng_in.threshold)

(***************************************************************************)
(* Failures of the text parser, checked under SpecParsers                  *)
(***************************************************************************)
\* C28: for a text input that contains a header line the parser returns a
\* dataset, whatever the lines after the header hold
C28_OnlyMissingHeader ==
    (input.kind = "text" /\ parsed # NotParsed) =>
        ((\E h \in DOMAIN input.lines : StartsWithSamplePos(input.lines[h]))
            => IsDataset(parsed))

(***************************************************************************)
(* Claims about selection synchronisation, checked under SpecSelection     *)
(***************************************************************************)
\* the main window ran a selection handler to its end in the last operation
SelectionHandled ==
    /\ \E i \in DOMAIN signals : signals[i] \in {"_on_plate_selection", "_on_table_selection"}
    /\ \A i \in DOMAIN signals : signals[i] # "exception"

\* C29: after the main window has finished handling a selectionChanged from
\* the plate map or the sample table, the plate map, the sample table and
\* the curve viewer hold the same selected set, and the programmatic
\* updates have triggered no further selection handling: one signal and one
\* handler ran
C29_SelectionSynchronised ==
    SelectionHandled =>
        /\ plate_map.selected_wells = SelectedRowWells(sample_table)
        /\ plate_map.selected_wells = curve_viewer.selected_wells
        /\ signals \in
               {<<"plate_map.selectionChanged", "_on_plate_selection">>,
                <<"sample_table.selectionChanged", "_on_table_selection">>}

\* the wells with data of the current dataset
DataWells == IF data.tag = "None" THEN {} ELSE Range(data.wells)

\* C30: after any sequence of loads, plate-map operations and table
\* selections the plate map's selected wells are wells with data of the
\* current dataset
C30_SelectedHaveData ==
    /\ plate_map.wells_with_data = DataWells
    /\ plate_map.selected_wells \subseteq plate_map.wells_with_data

====
